---- MODULE Spec2Model ----
(***************************************************************************)
(* Verification model of the rosbag-engine core:                           *)
(*   - CachedFilelike (util/CachedFilelike/index.ts) with its connection   *)
(*     scheduler (getNewConnection.ts), range helpers (ranges.ts), the     *)
(*     FetchReader streams it opens through BrowserHttpReader, and the     *)
(*     VirtualLRUBuffer it caches into;                                     *)
(*   - IteratorCursor (IteratorCursor.ts).                                 *)
(* Byte sizes are scaled down (a cache block is one byte wide), times are  *)
(* in milliseconds.                                                        *)
(***************************************************************************)
EXTENDS Integers, Sequences, FiniteSets, TLC

(***************************************************************************)
(* Bounds of the model.                                                    *)
(***************************************************************************)
\* size in bytes of the largest remote file
FileSize == 4
\* number of read() calls issued on the filelike
MaxReads == 3
\* fetch streams that can still deliver an event, tracked at the same time
MaxStreams == 2
\* transport errors the upstream produces
MaxErrors == 2
\* size of the file, and read() calls issued, where progress is checked
FairFileSize == 2
FairReads == 2
\* largest chunk a stream delivers in one data event
MaxChunk == 2
\* granularity of the clock
TickMs == 100
\* longest range a read() asks for (reads beyond the cache size are one input)
MaxLen == 2
\* items the wrapped iterator yields
MaxItems == 2
\* latest receive time or stamp of an item, and latest end time of a readUntil
MaxTime == 2
\* longest duration of a nextBatch
MaxDuration == 1
\* calls made on a cursor
MaxCalls == 3
\* records the stream of an MCAP file delivers
MaxRecords == 5
\* channel ids that appear in an MCAP file
MaxChannels == 2
\* log times of the Message records are the multiples 0..MaxLogTime of LogTimeStep
MaxLogTime == 2
\* nanoseconds between two log times; two steps cross the second boundary
LogTimeStep == 700000000
\* calls of messageIterator() and getBackfillMessages() on one source
MaxQueries == 1
\* message events one source emits while their sizes are watched
MaxEmitted == 3
\* largest wire size of a message, in bytes
MaxWireSize == 2
\* largest estimate of estimateObjectSize for a message, in bytes above its least value
MaxEstimate == 2
\* calls of initialize() on one source
MaxInits == 2
\* items of the stream a WorkerIterableSource iterates
MaxIterItems == 3
\* the window of nextBatch, in units of the items' time
BatchWindow == 1
\* transfers of one AbortSignal through the transfer handler
MaxTransfers == 3

(***************************************************************************)
(* Program constants (byte sizes scaled down).                             *)
(***************************************************************************)
CACHE_BLOCK_SIZE == 1
CLOSE_ENOUGH_BYTES_TO_NOT_START_NEW_CONNECTION == 1
ERROR_WINDOW_MS == 100
\* messageMemoryEstimation.ts: the least estimate of estimateObjectSize
SMALL_INTEGER_SIZE == 4

None == << >>
Some(x) == << x >>
IsSome(o) == o # << >>
Val(o) == o[1]

Range(a, b) == [start |-> a, end |-> b]
BytesOf(r) == r.start .. (r.end - 1)
Min(a, b) == IF a <= b THEN a ELSE b
CeilDiv(a, b) == (a + b - 1) \div b

\* content of the remote file: byte i of the file
FileByte(i) == i + 1
FileSlice(start, end) == [i \in 1..(end - start) |-> FileByte(start + i - 1)]

(***************************************************************************)
(* intervals-fn predicates used by ranges.ts and getNewConnection.ts       *)
(***************************************************************************)
isBefore(a, b) == a.end <= b.start
isDuring(a, b) == a.start >= b.start /\ a.end <= b.end
isOverlapping(as, bs) ==
  \E i \in DOMAIN as, j \in DOMAIN bs :
     bs[j].start < as[i].end /\ bs[j].end > as[i].start

\* the maximal runs of consecutive members of S inside [i, n), ascending
RECURSIVE RunsFrom(_, _, _)
RunsFrom(S0, i, n) ==
  CHOOSE result \in {
    IF i >= n THEN << >>
    ELSE IF i \notin S THEN RunsFrom(S, i + 1, n)
    ELSE LET e == CHOOSE j \in (i + 1)..n :
                     /\ (j = n \/ j \notin S)
                     /\ \A k \in i..(j - 1) : k \in S
         IN  << Range(i, e) >> \o RunsFrom(S, e, n)
    : S \in {S0} } : TRUE

RangesUnion(ranges) == UNION { BytesOf(ranges[i]) : i \in DOMAIN ranges }

(***************************************************************************)
(* ranges.ts                                                               *)
(***************************************************************************)
RECURSIVE isRangeCoveredByRanges(_, _)
isRangeCoveredByRanges(queryRange, ranges) ==
  IF ranges = << >> THEN FALSE
  ELSE IF isBefore(queryRange, Head(ranges)) THEN FALSE
  ELSE IF isDuring(queryRange, Head(ranges)) THEN TRUE
  ELSE isRangeCoveredByRanges(queryRange, Tail(ranges))

\* complement(bounds, intersect([bounds], ranges)): the gaps of `ranges` in bounds
missingRanges(bounds, ranges0) ==
  CHOOSE result \in {
    RunsFrom(BytesOf(bounds) \ RangesUnion(ranges), bounds.start, bounds.end)
    : ranges \in {ranges0} } : TRUE

(***************************************************************************)
(* VirtualLRUBuffer: `data` maps each resident byte offset to its value,   *)
(* `lru` lists the resident blocks, least recently used first.             *)
(***************************************************************************)
EmptyData == [i \in {} |-> 0]

NewVirtualLRUBuffer(size, blockSize, numberOfBlocks) ==
  [size |-> size, blockSize |-> blockSize, numberOfBlocks |-> numberOfBlocks,
   data |-> EmptyData, lru |-> << >>]

BlockBytes(buf, b) == (b * buf.blockSize) .. ((b + 1) * buf.blockSize - 1)

\* mark block b most recently used; evict the least recently used block when
\* more than numberOfBlocks blocks would be resident
getBlock(buf0, b) ==
  CHOOSE result \in {
    LET order == SelectSeq(buf.lru, LAMBDA x : x # b) \o << b >>
    IN  IF Len(order) > buf.numberOfBlocks
        THEN LET gone == BlockBytes(buf, Head(order))
             IN  [buf EXCEPT !.lru = Tail(order),
                             !.data = [i \in (DOMAIN buf.data) \ gone |-> buf.data[i]]]
        ELSE [buf EXCEPT !.lru = order]
    : buf \in {buf0} } : TRUE

RECURSIVE copyFromAt(_, _, _, _)
copyFromAt(buf0, chunk, targetStart, i) ==
  CHOOSE result \in {
    IF i > Len(chunk) THEN buf
    ELSE LET pos == targetStart + i - 1
             b1  == getBlock(buf, pos \div buf.blockSize)
             b2  == [b1 EXCEPT !.data =
                       [p \in (DOMAIN b1.data) \cup {pos} |->
                          IF p = pos THEN chunk[i] ELSE b1.data[p]]]
         IN  copyFromAt(b2, chunk, targetStart, i + 1)
    : buf \in {buf0} } : TRUE

copyFrom(buf, chunk, targetStart) == copyFromAt(buf, chunk, targetStart, 1)

hasData(buf, start, end) == \A i \in start..(end - 1) : i \in DOMAIN buf.data

slice(buf, start, end) == [i \in 1..(end - start) |-> buf.data[start + i - 1]]

getRangesWithData(buf) == RunsFrom(DOMAIN buf.data, 0, buf.size)

(***************************************************************************)
(* getNewConnection.ts.  A result is [throw, range]: range is None or      *)
(* Some(range); throw is TRUE when the function throws.                    *)
(***************************************************************************)
NoNewConnection == [throw |-> FALSE, range |-> None]
NewConnection(r) == [throw |-> FALSE, range |-> Some(r)]
Throws == [throw |-> TRUE, range |-> None]
FirstOf(ranges) == IF ranges = << >> THEN NoNewConnection ELSE NewConnection(Head(ranges))

getNewConnectionWithExistingReadRequest(currentRemainingRange0, readRequestRange0, downloadedRanges0, maxRequestSize, fileSz, continueDownloadingThreshold) ==
  CHOOSE result \in {
    IF readRequestRange.end - readRequestRange.start > maxRequestSize THEN Throws
    ELSE
    LET notDownloadedRanges == missingRanges(readRequestRange, downloadedRanges) IN
    IF notDownloadedRanges = << >> THEN Throws
    ELSE
    LET startNewConnection ==
          \/ ~IsSome(currentRemainingRange)
          \/ ~isOverlapping(notDownloadedRanges, << Val(currentRemainingRange) >>)
          \/ Val(currentRemainingRange).start + continueDownloadingThreshold
               < notDownloadedRanges[1].start
    IN
    IF ~startNewConnection THEN NoNewConnection
    ELSE IF maxRequestSize >= fileSz
    THEN FirstOf(missingRanges(Range(notDownloadedRanges[1].start, fileSz),
                               downloadedRanges))
    ELSE IF notDownloadedRanges[1].end = readRequestRange.end
    THEN NewConnection(Range(notDownloadedRanges[1].start,
                             Min(readRequestRange.start + maxRequestSize, fileSz)))
    ELSE NewConnection(notDownloadedRanges[1])
    : currentRemainingRange \in {currentRemainingRange0}, readRequestRange \in {readRequestRange0}, downloadedRanges \in {downloadedRanges0} } : TRUE

getNewConnectionWithoutExistingConnection(downloadedRanges0, lastResolvedCallbackEnd0, maxRequestSize, fileSz) ==
  CHOOSE result \in {
    LET readAheadRange ==
          IF maxRequestSize >= fileSz
          THEN LET potentialRange ==
                     Range(IF IsSome(lastResolvedCallbackEnd)
                           THEN Val(lastResolvedCallbackEnd) ELSE 0, fileSz)
               IN  IF ~isRangeCoveredByRanges(potentialRange, downloadedRanges)
                   THEN Some(potentialRange)
                   ELSE Some(Range(0, fileSz))
          ELSE IF IsSome(lastResolvedCallbackEnd)
          THEN Some(Range(Val(lastResolvedCallbackEnd),
                          Min(Val(lastResolvedCallbackEnd) + maxRequestSize, fileSz)))
          ELSE None
    IN  IF IsSome(readAheadRange)
        THEN FirstOf(missingRanges(Val(readAheadRange), downloadedRanges))
        ELSE NoNewConnection
    : downloadedRanges \in {downloadedRanges0}, lastResolvedCallbackEnd \in {lastResolvedCallbackEnd0} } : TRUE

\* mutant: read-ahead is started whether or not a connection is live
getNewConnectionEager(currentRemainingRange, readRequestRange, downloadedRanges, lastResolvedCallbackEnd, maxRequestSize, fileSz, continueDownloadingThreshold) ==
  IF IsSome(readRequestRange)
  THEN getNewConnectionWithExistingReadRequest(
         currentRemainingRange, Val(readRequestRange), downloadedRanges,
         maxRequestSize, fileSz, continueDownloadingThreshold)
  ELSE getNewConnectionWithoutExistingConnection(
         downloadedRanges, lastResolvedCallbackEnd, maxRequestSize, fileSz)

getNewConnection(currentRemainingRange, readRequestRange, downloadedRanges, lastResolvedCallbackEnd, maxRequestSize, fileSz, continueDownloadingThreshold) ==
  IF IsSome(readRequestRange)
  THEN getNewConnectionWithExistingReadRequest(
         currentRemainingRange, Val(readRequestRange), downloadedRanges,
         maxRequestSize, fileSz, continueDownloadingThreshold)
  ELSE IF ~IsSome(currentRemainingRange)
  THEN getNewConnectionWithoutExistingConnection(
         downloadedRanges, lastResolvedCallbackEnd, maxRequestSize, fileSz)
  ELSE NoNewConnection


(***************************************************************************)
(* State.                                                                  *)
(***************************************************************************)
VARIABLES
  \* the remote file: the size fileReader.open() reports
  remoteSize,
  \* CachedFilelike: constructor options
  cacheSizeInBytes,          \* #cacheSizeInBytes
  hasCallback,               \* whether #keepReconnectingCallback is configured
  \* CachedFilelike: fields
  fileSize,                  \* #fileSize: None until open() completed
  virtualBuffer,             \* #virtualBuffer
  readRequests,              \* #readRequests: queue of [range, settled]
  lastResolvedCallbackEnd,   \* #lastResolvedCallbackEnd: None or Some(offset)
  lastErrorTime,             \* #lastErrorTime: None or Some(ms)
  closed,                    \* #closed
  currentConnection,         \* #currentConnection: None or Some([stream, remainingRange])
  \* read() calls whose open() has not resolved yet, in issue order
  opening,
  \* the FetchReader streams returned by fileReader.fetch, by slot
  streams,
  \* environment and observation
  now,                       \* Date.now()
  maxReads,                  \* read() calls the caller issues at most
  nReads,                    \* read() calls issued so far
  nErrors,                   \* transport errors produced so far
  cbCalls,                   \* arguments the reconnect callback was invoked with
  thrown,                    \* getNewConnection threw inside #updateState
  lastStep                   \* what the last step did: the event emitted, the
                             \* read promises settled, whether fetch was called

cfVars == << remoteSize, cacheSizeInBytes, hasCallback, fileSize, virtualBuffer,
             readRequests, lastResolvedCallbackEnd, lastErrorTime, closed,
             currentConnection, opening, streams, now, maxReads, nReads, nErrors,
             cbCalls, thrown, lastStep >>

VARIABLES
  \* the wrapped async iterator
  items,                     \* what it yields, in order
  hasReturn,                 \* whether it has a return() hook
  pos,                       \* how many items it has yielded
  returned,                  \* return() has been called
  \* IteratorCursor: fields
  lastIteratorResult,        \* #lastIteratorResult: None or Some(item)
  aborted,                   \* #abort.aborted
  \* the caller
  call,                      \* the call in flight, suspended at an await
  ended,                     \* an end() call has completed
  lastReturn,                \* what the last completed call returned
  stashedBy,                 \* the bound of the readUntil that filled the stash
  delivered,                 \* every item returned to the caller so far, in order
  nCalls

cursorVars == << items, hasReturn, pos, returned, lastIteratorResult, aborted, call,
                 ended, lastReturn, stashedBy, delivered, nCalls >>

\* McapUnindexedIterableSource (McapIterableSourceWorker.worker.ts)
VARIABLES
  phase,                     \* "reading" while initialize() consumes the stream,
                             \* then "initialized", or "failed" when it threw
  nRecords,                  \* records read from the stream so far
  schemasById,               \* locals of initialize()
  channelInfoById,
  channelIdsWithErrors,
  messagesByChannel,         \* a Map: entries in insertion order
  startTime,
  endTime,
  msgEventsByChannel,        \* #msgEventsByChannel
  mcapStart,                 \* #start
  mcapEnd,                   \* #end
  lastResult,                \* the last call on the source, with what it produced
  topicStats,                \* topicStats of the Initalization returned, a Map
  nQueries,                  \* calls of messageIterator() and getBackfillMessages()
  lastRecord,                \* the record initialize() processed in the last step
  faulty,                    \* ids of the channels whose Channel record failed to parse
  channelRecords             \* the Channel records initialize() has processed so far

mcapVars == << phase, nRecords, schemasById, channelInfoById, channelIdsWithErrors,
               messagesByChannel, startTime, endTime, msgEventsByChannel, mcapStart,
               mcapEnd, lastResult, nQueries, lastRecord, faulty, channelRecords,
               topicStats >>

\* the size of the message events of a source (sizeInBytes)
VARIABLES
  sizeSource,                \* "mcap": McapUnindexedIterableSource, "bag": BagIterableSource
  messageSizeEstimateByTopic,
  emitted                    \* the message events built so far, with what they were built from

sizeVars == << sizeSource, messageSizeEstimateByTopic, emitted >>

\* what an action of one component leaves alone: the other components
\* WorkerIterableSource, the workers it creates and the McapIterableSource
\* facades: facade 0 is used in process, facade w is hosted by worker w
VARIABLES
  sourceWorkerRemote,   \* #sourceWorkerRemote: None, or the worker whose source it proxies
  disposeRemote,        \* #disposeRemote: None, or the worker whose proxy it releases
  workers,              \* the workers initWorker() has created
  init,                 \* the call of WorkerIterableSource.initialize() in flight
  facades,              \* per McapIterableSource: #sourceImpl and its initialize() in flight
  initLog,              \* the initialize() calls that have completed
  initialized,          \* the sources on which an initialize() has returned
  terminated,           \* terminate() has returned and initialize() was not called since
  lastQuery             \* the latest query and its outcome

workerVars == << sourceWorkerRemote, disposeRemote, workers, init, facades, initLog,
                 initialized, terminated, lastQuery >>

\* WorkerIterableSource.messageIterator: the generator in the foreground
VARIABLES
  wPc,        \* where the generator stands
  batchRest,    \* the results of the batch not yet yielded
  yielded,    \* the items yielded to the consumer, in order
  stopped,    \* the consumer has called return() before the end
  endCalls,   \* calls of end() on the worker's cursor made by the generator
  proxyReleased,  \* messageCursor[Comlink.releaseProxy]() has run
  failed      \* the generator has thrown

iterVars == << wPc, batchRest, yielded, stopped, endCalls, proxyReleased, failed >>

\* abortSignalTransferHandler: an AbortSignal sent across the worker boundary
VARIABLES
  originalAborted,   \* abortSignal.aborted of the sender's signal
  transfers          \* per transfer: the message channel and the receiver's controller

abortVars == << originalAborted, transfers >>

othersCF == << cursorVars, mcapVars, sizeVars, workerVars, iterVars, abortVars >>

othersCursor == << cfVars, mcapVars, sizeVars, workerVars, iterVars, abortVars >>

othersMcap == << cfVars, cursorVars, sizeVars, workerVars, iterVars, abortVars >>

othersSize == << cfVars, cursorVars, mcapVars, workerVars, iterVars, abortVars >>

othersWorker == << cfVars, cursorVars, mcapVars, sizeVars, iterVars, abortVars >>

othersIter == << cfVars, mcapVars, sizeVars, workerVars, abortVars >>

othersAbort == << cfVars, cursorVars, mcapVars, sizeVars, workerVars, iterVars >>

Slots == 1..MaxStreams

\* a FetchReader: phase of its request ("free": no stream in the slot, "open",
\* "ended", "errored"), #aborted, the range it fetches, the bytes the upstream has
\* delivered (sent) and the data listener's closure counter (bytesRead).
\* drained: no body read that resolved before destroy() is outstanding.
\* no Range header
NoHeader == [first |-> 0, last |-> 0]

FreeStream == [phase |-> "free", aborted |-> FALSE, drained |-> FALSE,
               start |-> 0, length |-> 0, sent |-> 0, bytesRead |-> 0, header |-> NoHeader]

NoError == [kind |-> "none", id |-> 0]
NoEvent == [type |-> "none", stale |-> FALSE, destroyed |-> FALSE, error |-> NoError]

\* the CachedFilelike and its streams as one record, for the handlers to work on;
\* settled, fetched and overflow describe the step being taken
CF == [fileSize |-> fileSize, virtualBuffer |-> virtualBuffer,
       readRequests |-> readRequests,
       lastResolvedCallbackEnd |-> lastResolvedCallbackEnd,
       lastErrorTime |-> lastErrorTime, closed |-> closed,
       currentConnection |-> currentConnection, opening |-> opening,
       streams |-> streams, cbCalls |-> cbCalls, thrown |-> thrown,
       settled |-> << >>, fetched |-> << >>, overflow |-> FALSE]

\* a read promise resolved with bytes / rejected with an error
Resolved(range, bytes) ==
  [range |-> range, outcome |-> "resolved", data |-> bytes, error |-> NoError]
Rejected(range, err) ==
  [range |-> range, outcome |-> "rejected", data |-> << >>, error |-> err]

\* a destroyed stream that has ended can emit nothing more: its slot is free again
Collect(strs) ==
  [k \in Slots |->
     IF strs[k].aborted /\ strs[k].phase \in {"ended", "errored"}
     THEN FreeStream ELSE strs[k]]

\* FetchReader.destroy(); inHandler: called from a listener of that same stream,
\* so no body read of it is outstanding
destroy(strs, sid, inHandler) ==
  Collect([strs EXCEPT ![sid].aborted = TRUE,
                       ![sid].drained = (@ \/ inHandler)])

\* mutant: the header names the byte after the range as its last byte
rangeHeaderPastEnd(offset, length) == [first |-> offset, last |-> offset + length]

\* range: `bytes=${offset}-${offset + (length - 1)}`, as bytes=first-last
rangeHeader(offset, length) == [first |-> offset, last |-> offset + (length - 1)]

\* BrowserHttpReader.fetch(offset, length): a new FetchReader whose read() started
fetch(offset, length) ==
  [phase |-> "open", aborted |-> FALSE, drained |-> FALSE,
   start |-> offset, length |-> length, sent |-> 0, bytesRead |-> 0,
   header |-> rangeHeader(offset, length)]

FirstFree(strs) ==
  LET free == {k \in Slots : strs[k].phase = "free"}
  IN  IF free = {} THEN 0 ELSE CHOOSE k \in free : \A j \in free : k <= j

(***************************************************************************)
(* CachedFilelike.#setConnection (the part before the listeners).          *)
(* emitter: the stream whose listener is running, 0 if none.               *)
(***************************************************************************)
\* mutant: the previous connection is not destroyed
dropCurrentKeepingStream(s, emitter) == s.streams

\* the streams left once #setConnection has dealt with the previous connection
dropCurrent(s, emitter) ==
  IF IsSome(s.currentConnection)
  THEN destroy(s.streams, Val(s.currentConnection).stream,
               Val(s.currentConnection).stream = emitter)
  ELSE s.streams

setConnection(s0, range0, emitter) ==
  CHOOSE result \in {
    LET strs == dropCurrent(s, emitter)
        id   == FirstFree(strs)
    IN  IF id = 0 THEN [s EXCEPT !.overflow = TRUE]
        ELSE [s EXCEPT
                !.streams = [strs EXCEPT ![id] = fetch(range.start, range.end - range.start)],
                !.currentConnection = Some([stream |-> id, remainingRange |-> range]),
                !.fetched = Append(@, range)]
    : s \in {s0}, range \in {range0} } : TRUE

(***************************************************************************)
(* CachedFilelike.#updateState                                             *)
(***************************************************************************)
\* mutant: no queued request is ever found in the cache
isHitNever(buf, range) == FALSE

\* the filter of #updateState: the cache holds the whole range
isHit(buf, range) == hasData(buf, range.start, range.end)

updateState(s0, emitter) ==
  CHOOSE result \in {
    IF s.closed THEN s
    ELSE
    LET hit(q) == isHit(s.virtualBuffer, q.range)
        done == SelectSeq(s.readRequests, hit)
        kept == SelectSeq(s.readRequests, LAMBDA q : ~hit(q))
        newly == SelectSeq(done, LAMBDA q : ~q.settled)
        s1 == [s EXCEPT
                 !.readRequests = kept,
                 !.settled = @ \o [i \in DOMAIN newly |->
                                     Resolved(newly[i].range,
                                              slice(s.virtualBuffer, newly[i].range.start,
                                                    newly[i].range.end))],
                 !.lastResolvedCallbackEnd =
                     IF done = << >> THEN @ ELSE Some(done[Len(done)].range.end)]
        newConnection ==
          getNewConnection(
            IF IsSome(s1.currentConnection)
            THEN Some(Val(s1.currentConnection).remainingRange) ELSE None,
            IF kept # << >> THEN Some(kept[1].range) ELSE None,
            getRangesWithData(s1.virtualBuffer),
            s1.lastResolvedCallbackEnd,
            cacheSizeInBytes,
            Val(s1.fileSize),
            CLOSE_ENOUGH_BYTES_TO_NOT_START_NEW_CONNECTION)
    IN  IF newConnection.throw THEN [s1 EXCEPT !.thrown = TRUE]
        ELSE IF IsSome(newConnection.range)
        THEN setConnection(s1, Val(newConnection.range), emitter)
        ELSE s1
    : s \in {s0} } : TRUE

(***************************************************************************)
(* The listeners #setConnection installs on a stream.                      *)
(***************************************************************************)
\* mutant: the listeners only check that some connection is current
isCurrentStreamAny(s, sid) == IsSome(s.currentConnection)

\* the identity check both listeners start with
isCurrentStream(s, sid) ==
  IsSome(s.currentConnection) /\ Val(s.currentConnection).stream = sid

\* mutant: the window test is inclusive
errorsTooCloseInclusive(s) ==
  IsSome(s.lastErrorTime) /\ now - Val(s.lastErrorTime) <= ERROR_WINDOW_MS

\* two errors in a short time: Date.now() - lastErrorTime < 100
errorsTooClose(s) ==
  IsSome(s.lastErrorTime) /\ now - Val(s.lastErrorTime) < ERROR_WINDOW_MS

\* mutant: the error listener drops the stream and does not reschedule
reconnectWithoutUpdate(s, sid) ==
  [s EXCEPT !.lastErrorTime = Some(now),
            !.streams = destroy(s.streams, sid, TRUE),
            !.currentConnection = None]

\* the tail of the error listener: remember the time, drop the stream, reschedule
reconnect(s, sid) ==
  updateState([s EXCEPT !.lastErrorTime = Some(now),
                        !.streams = destroy(s.streams, sid, TRUE),
                        !.currentConnection = None], sid)

\* the error listener's fatal branch: close and reject every queued request
closeWith(s, error) ==
  LET pending == SelectSeq(s.readRequests, LAMBDA q : ~q.settled)
  IN  [s EXCEPT !.closed = TRUE,
                !.readRequests = [i \in DOMAIN @ |-> [@[i] EXCEPT !.settled = TRUE]],
                !.settled = @ \o [i \in DOMAIN pending |->
                                    Rejected(pending[i].range, error)]]

\* mutant: the callback is notified on every error
notifyReconnectingAlways(s) == [s EXCEPT !.cbCalls = Append(@, TRUE)]

\* the error listener's callback branch: notify on the first error
notifyReconnecting(s) ==
  IF ~IsSome(s.lastErrorTime) THEN [s EXCEPT !.cbCalls = Append(@, TRUE)] ELSE s

onError(s, sid, error) ==
  IF ~isCurrentStream(s, sid) THEN s
  ELSE IF hasCallback THEN reconnect(notifyReconnecting(s), sid)
  ELSE IF errorsTooClose(s) THEN closeWith(s, error)
  ELSE reconnect(s, sid)

\* mutant: the chunk is written at the end of the remaining range
writeOffsetAtEnd(conn) == conn.remainingRange.end - 1

\* where the data listener writes a chunk
writeOffset(conn) == conn.remainingRange.start

\* the data listener's first part: an earlier error is over
clearError(s) ==
  IF IsSome(s.lastErrorTime)
  THEN [s EXCEPT !.lastErrorTime = None,
                 !.cbCalls = IF hasCallback THEN Append(@, FALSE) ELSE @]
  ELSE s

onData(s0, sid, chunk) ==
  CHOOSE result \in {
    IF ~isCurrentStream(s, sid) THEN s
    ELSE
    LET conn  == Val(s.currentConnection)
        range == Range(s.streams[sid].start, s.streams[sid].start + s.streams[sid].length)
        s1 == clearError(s)
        buf == copyFrom(s1.virtualBuffer, chunk, writeOffset(conn))
        bytesRead == s1.streams[sid].bytesRead + Len(chunk)
        s2 == [s1 EXCEPT !.virtualBuffer = buf, !.streams[sid].bytesRead = bytesRead]
        s3 == IF hasData(buf, range.start, range.end)
              THEN [s2 EXCEPT !.streams = destroy(s2.streams, sid, TRUE),
                              !.currentConnection = None]
              ELSE [s2 EXCEPT !.currentConnection =
                      Some([stream |-> sid,
                            remainingRange |-> Range(range.start + bytesRead, range.end)])]
    IN  updateState(s3, sid)
    : s \in {s0} } : TRUE

(***************************************************************************)
(* CachedFilelike.open and CachedFilelike.read                             *)
(***************************************************************************)
\* the configurations: << size of the remote file, cacheSizeInBytes, number of
\* read() calls >>: a cache that evicts, a cache smaller than the file that
\* never evicts, and a cache that holds the whole file
Configs == { << FileSize, FileSize - 3, MaxReads >>,
             << FileSize, FileSize - 2, MaxReads - 1 >>,
             << FileSize - 1, FileSize - 1, MaxReads - 1 >> }

\* the (offset, length) pairs read() is called with: every range of at most
\* MaxLen bytes that starts inside the file (some reach past its end), a
\* zero-length read and a read longer than any cache
ReadInputs ==
  ({ << o, l >> : o \in 0..(remoteSize - 1), l \in 1..MaxLen } \cup
     { << 0, 0 >>, << 0, remoteSize + 1 >> })

\* the buffer open() allocates once the size is known
openBuffer(size) ==
  IF cacheSizeInBytes >= size
  THEN NewVirtualLRUBuffer(size, size, 1)
  ELSE NewVirtualLRUBuffer(size, CACHE_BLOCK_SIZE,
                           CeilDiv(cacheSizeInBytes, CACHE_BLOCK_SIZE) + 2)

\* read(): the continuation that runs when open() has resolved
afterOpen(s, range) ==
  IF range.end > Val(s.fileSize)
  THEN [s EXCEPT !.settled = Append(@, Rejected(range, [kind |-> "exceedsFile", id |-> 0]))]
  ELSE updateState([s EXCEPT !.readRequests =
                       Append(@, [range |-> range, settled |-> FALSE])], 0)

\* read(): the synchronous part, up to and including the call of open()
readCall(s, offset, length) ==
  LET range == Range(offset, offset + length)
  IN  IF length = 0
      THEN [s EXCEPT !.settled = Append(@, Resolved(range, << >>))]
      ELSE IF length > cacheSizeInBytes
      THEN [s EXCEPT !.settled =
              Append(@, Rejected(range, [kind |-> "exceedsCache", id |-> 0]))]
      ELSE IF IsSome(s.fileSize)
      THEN afterOpen(s, range)
      ELSE [s EXCEPT !.opening = Append(@, range)]

RemoveAt(seq, i) == SubSeq(seq, 1, i - 1) \o SubSeq(seq, i + 1, Len(seq))

\* open(): fileReader.open() resolved with the size, for the i-th waiting read
openDone(s, i) ==
  afterOpen([s EXCEPT !.fileSize = Some(remoteSize),
                      !.virtualBuffer = openBuffer(remoteSize),
                      !.opening = RemoveAt(@, i)], s.opening[i])

\* open(): fileReader.open() failed, for the i-th waiting read
openFailed(s, i) ==
  [s EXCEPT !.opening = RemoveAt(@, i),
            !.settled = Append(@, Rejected(s.opening[i], [kind |-> "open", id |-> 0]))]

(***************************************************************************)
(* Actions.  The handlers take the state as a value: an argument that is   *)
(* bound by a quantifier is evaluated once.                                *)
(***************************************************************************)
Commit(s0, ev) ==
  \E s \in {s0} :
  /\ ~s.overflow
  /\ fileSize' = s.fileSize
  /\ virtualBuffer' = s.virtualBuffer
  /\ readRequests' = s.readRequests
  /\ lastResolvedCallbackEnd' = s.lastResolvedCallbackEnd
  /\ lastErrorTime' = s.lastErrorTime
  /\ closed' = s.closed
  /\ currentConnection' = s.currentConnection
  /\ opening' = s.opening
  /\ streams' = Collect(s.streams)
  /\ cbCalls' = s.cbCalls
  /\ thrown' = s.thrown
  /\ lastStep' = [event |-> ev, settled |-> s.settled, fetched |-> s.fetched]
  /\ UNCHANGED << remoteSize, cacheSizeInBytes, hasCallback, maxReads >>
  /\ UNCHANGED othersCF

Event(type, k, error) ==
  [type |-> type,
   stale |-> ~(IsSome(currentConnection) /\ Val(currentConnection).stream = k),
   destroyed |-> streams[k].aborted,
   error |-> error]

Read ==
  /\ nReads < maxReads
  /\ \E in \in ReadInputs : Commit(readCall(CF, in[1], in[2]), NoEvent)
  /\ nReads' = nReads + 1
  /\ UNCHANGED << now, nErrors >>

OpenDone ==
  /\ \E i \in DOMAIN opening : Commit(openDone(CF, i), NoEvent)
  /\ UNCHANGED << now, nReads, nErrors >>

OpenFail ==
  /\ \E i \in DOMAIN opening : Commit(openFailed(CF, i), NoEvent)
  /\ UNCHANGED << now, nReads, nErrors >>

\* the request or a body read of a stream failed: the stream emits error
StreamError ==
  /\ nErrors < MaxErrors
  /\ \E k \in Slots :
        /\ streams[k].phase = "open" /\ ~streams[k].aborted
        /\ LET error == [kind |-> "stream", id |-> nErrors + 1]
           IN  Commit(onError([CF EXCEPT !.streams[k].phase = "errored"], k, error),
                      Event("error", k, error))
  /\ nErrors' = nErrors + 1
  /\ UNCHANGED << now, nReads >>

\* a body read resolved with a chunk: the stream emits data and reads on
StreamData ==
  /\ \E k \in Slots :
        /\ streams[k].phase = "open" /\ ~streams[k].aborted
        /\ \E n \in 1..MaxChunk :
              /\ streams[k].sent + n <= streams[k].length
              /\ LET from  == streams[k].start + streams[k].sent
                     chunk == FileSlice(from, from + n)
                 IN  Commit(onData([CF EXCEPT !.streams[k].sent = @ + n], k, chunk),
                            Event("data", k, NoError))
  /\ UNCHANGED << now, nReads, nErrors >>

\* a body read resolved with done: the stream emits end (nobody listens)
StreamEnd ==
  /\ \E k \in Slots :
        /\ streams[k].phase = "open" /\ ~streams[k].aborted
        /\ Commit([CF EXCEPT !.streams[k].phase = "ended"], Event("end", k, NoError))
  /\ UNCHANGED << now, nReads, nErrors >>

\* destroy() aborted the request before the response: fetch rejects, #getReader
\* emits the abort error
AbortError ==
  /\ \E k \in Slots :
        /\ streams[k].phase = "open" /\ streams[k].aborted /\ streams[k].sent = 0
        /\ LET error == [kind |-> "abort", id |-> 0]
           IN  Commit(onError([CF EXCEPT !.streams[k].phase = "errored"], k, error),
                      Event("error", k, error))
  /\ UNCHANGED << now, nReads, nErrors >>

\* a body read that had resolved before destroy() delivers its chunk afterwards
DataAfterDestroy ==
  /\ \E k \in Slots :
        /\ streams[k].phase = "open" /\ streams[k].aborted /\ ~streams[k].drained
        /\ \E n \in 1..MaxChunk :
              /\ streams[k].sent + n <= streams[k].length
              /\ LET from  == streams[k].start + streams[k].sent
                     chunk == FileSlice(from, from + n)
                 IN  Commit(onData([CF EXCEPT !.streams[k].sent = @ + n,
                                              !.streams[k].drained = TRUE], k, chunk),
                            Event("data", k, NoError))
  /\ UNCHANGED << now, nReads, nErrors >>

\* the body read of a destroyed stream rejects: read() sees #aborted and emits end
EndAfterDestroy ==
  /\ \E k \in Slots :
        /\ streams[k].phase = "open" /\ streams[k].aborted
        /\ Commit([CF EXCEPT !.streams[k].phase = "ended"], Event("end", k, NoError))
  /\ UNCHANGED << now, nReads, nErrors >>

\* time passes; it is observed only through Date.now() - lastErrorTime < 100
Tick ==
  /\ ~hasCallback /\ ~closed
  /\ IsSome(lastErrorTime) /\ now - Val(lastErrorTime) < ERROR_WINDOW_MS
  /\ now' = now + TickMs
  /\ lastStep' = [event |-> NoEvent, settled |-> << >>, fetched |-> << >>]
  /\ UNCHANGED << remoteSize, cacheSizeInBytes, hasCallback, maxReads, fileSize, virtualBuffer,
                  readRequests, lastResolvedCallbackEnd, lastErrorTime, closed,
                  currentConnection, opening, streams, nReads, nErrors, cbCalls,
                  thrown >>
  /\ UNCHANGED othersCF

\* the fields of a CachedFilelike after construction
NewCachedFilelike ==
  /\ fileSize = None
  /\ virtualBuffer = NewVirtualLRUBuffer(0, 1, 1)
  /\ readRequests = << >>
  /\ lastResolvedCallbackEnd = None
  /\ lastErrorTime = None
  /\ closed = FALSE
  /\ currentConnection = None
  /\ opening = << >>
  /\ streams = [k \in Slots |-> FreeStream]
  /\ now = 0
  /\ nReads = 0
  /\ nErrors = 0
  /\ cbCalls = << >>
  /\ thrown = FALSE
  /\ lastStep = [event |-> NoEvent, settled |-> << >>, fetched |-> << >>]

(***************************************************************************)
(* IteratorCursor over an async iterator.  A call runs up to its next      *)
(* await in one step; the abort signal may fire between two steps.  The    *)
(* caller awaits each call before making the next one.                     *)
(***************************************************************************)
Times == 0..MaxTime
ItemTypes == {"message-event", "stamp", "problem"}

\* an IteratorResult: a message event with its receiveTime, a stamp, or a problem
Items == [type : {"message-event", "stamp"}, time : Times] \cup
           {[type |-> "problem", time |-> 0]}

\* message events and stamps come in time order
InTimeOrder(seq) ==
  \A i, j \in DOMAIN seq :
     (i < j /\ seq[i].type # "problem" /\ seq[j].type # "problem") =>
        seq[i].time <= seq[j].time

Sources == { seq \in UNION { [1..n -> Items] : n \in 0..MaxItems } : InTimeOrder(seq) }

\* compare() of @foxglove/rostime
compare(a, b) == a - b

NoCall == [op |-> "none", arg |-> 0, results |-> << >>, first |-> FALSE, cutoff |-> 0,
           afterEnd |-> FALSE, stash |-> None, stashedBy |-> None,
           cancelled |-> FALSE, from |-> 0]

NoReturn == [op |-> "none", arg |-> 0, value |-> None, afterEnd |-> FALSE,
             stash |-> None, stashedBy |-> None, kept |-> None,
             cancelled |-> FALSE, abortedAtReturn |-> FALSE, from |-> 0, to |-> 0,
             sawDone |-> FALSE]

\* the wrapped iterator's next(): done, or the next item
iterDone == returned \/ pos = Len(items)
iterValue == IF iterDone THEN None ELSE Some(items[pos + 1])
iterAdvance == pos' = IF iterDone THEN pos ELSE pos + 1

\* a call begins: what the caller will learn about it
Begin(op, arg) ==
  [op |-> op, arg |-> arg, results |-> << >>, first |-> TRUE, cutoff |-> 0,
   afterEnd |-> ended, stash |-> lastIteratorResult, stashedBy |-> stashedBy,
   cancelled |-> aborted, from |-> pos]

\* the items a returned value hands to the caller
ItemsOf(op, value) ==
  IF value = None THEN << >> ELSE IF op = "next" THEN value ELSE Val(value)

\* the call c returns value
Return(c, value) ==
  /\ call' = NoCall
  /\ lastReturn' = [op |-> c.op, arg |-> c.arg, value |-> value, afterEnd |-> c.afterEnd,
                    stash |-> c.stash, stashedBy |-> c.stashedBy,
                    kept |-> lastIteratorResult',
                    cancelled |-> c.cancelled, abortedAtReturn |-> aborted,
                    from |-> c.from, to |-> pos',
                    sawDone |-> (call.op # "none" /\ iterDone)]
  /\ delivered' = delivered \o ItemsOf(c.op, value)

CanCall == call.op = "none" /\ nCalls < MaxCalls

\* next(): this.#abort?.aborted === true, before the iterator is asked
abortedBeforeNext == aborted

\* readUntil(): the abort signal as read on entry
abortedOnEntry == aborted

\* mutant: readUntil does not look at the abort signal after a pull
abortNotObserved == FALSE

\* readUntil(): the abort signal as read after each await of iter.next()
abortedAfterPull == aborted

\* next(), up to the await of iter.next()
CallNext ==
  /\ CanCall
  /\ nCalls' = nCalls + 1
  /\ UNCHANGED << items, hasReturn, pos, returned, lastIteratorResult, aborted, ended,
                  stashedBy >>
  /\ IF abortedBeforeNext
     THEN Return(Begin("next", 0), None)
     ELSE call' = Begin("next", 0) /\ UNCHANGED << lastReturn, delivered >>

\* next(), from the await on: result.value
NextDone ==
  /\ call.op = "next"
  /\ iterAdvance
  /\ UNCHANGED << items, hasReturn, returned, lastIteratorResult, aborted, ended,
                  stashedBy, nCalls >>
  /\ Return(call, iterValue)

\* nextBatch(durationMs), up to the await inside its first next()
StartNextBatch(durationMs) ==
  /\ nCalls' = nCalls + 1
  /\ UNCHANGED << items, hasReturn, pos, returned, lastIteratorResult, aborted, ended,
                  stashedBy >>
  /\ IF abortedBeforeNext
     THEN Return(Begin("nextBatch", durationMs), None)
     ELSE call' = Begin("nextBatch", durationMs) /\ UNCHANGED << lastReturn, delivered >>

\* a caller of the cursor calls nextBatch
CallNextBatch == CanCall /\ \E durationMs \in 0..MaxDuration : StartNextBatch(durationMs)

\* mutant: the loop of nextBatch stops after every result
batchBreaksAlways(result, cutoffTime) == TRUE

\* the loop of nextBatch stops after this result
batchBreaks(result, cutoffTime) ==
  \/ result.type = "problem"
  \/ result.type = "stamp" /\ compare(result.time, cutoffTime) > 0
  \/ result.type = "message-event" /\ compare(result.time, cutoffTime) > 0

\* nextBatch, from one await to the next: a result of next() arrives, and the
\* next next() checks the abort signal
NextBatchStep ==
  /\ call.op = "nextBatch"
  /\ iterAdvance
  /\ UNCHANGED << items, hasReturn, returned, lastIteratorResult, aborted, ended,
                  stashedBy, nCalls >>
  /\ IF call.first
     THEN IF ~IsSome(iterValue) THEN Return(call, None)
          ELSE IF Val(iterValue).type = "problem" THEN Return(call, Some(<< Val(iterValue) >>))
          ELSE IF abortedBeforeNext THEN Return(call, Some(<< Val(iterValue) >>))
          ELSE /\ call' = [call EXCEPT !.first = FALSE,
                                       !.results = << Val(iterValue) >>,
                                       !.cutoff = Val(iterValue).time + call.arg]
               /\ UNCHANGED << lastReturn, delivered >>
     ELSE IF ~IsSome(iterValue) THEN Return(call, Some(call.results))
          ELSE IF batchBreaks(Val(iterValue), call.cutoff) \/ abortedBeforeNext
          THEN Return(call, Some(Append(call.results, Val(iterValue))))
          ELSE /\ call' = [call EXCEPT !.results = Append(@, Val(iterValue))]
               /\ UNCHANGED << lastReturn, delivered >>

\* mutant: the stash is handed out whatever the bound
stashNeverBeyond(stash, end) == FALSE

\* readUntil: the stashed result is still beyond the end time
stashStillBeyond(stash, end) ==
  \/ stash.type = "stamp" /\ compare(stash.time, end) >= 0
  \/ stash.type = "message-event" /\ compare(stash.time, end) > 0

\* mutant: a stamp at the end time does not end the call
isTerminatorStrict(value, end) == value.type # "problem" /\ compare(value.time, end) > 0

\* readUntil: the value read ends the call and is stashed
isTerminator(value, end) ==
  \/ value.type = "stamp" /\ compare(value.time, end) >= 0
  \/ value.type = "message-event" /\ compare(value.time, end) > 0

\* readUntil(end), up to the first await of iter.next()
CallReadUntil ==
  /\ CanCall
  /\ nCalls' = nCalls + 1
  /\ UNCHANGED << items, hasReturn, pos, returned, aborted, ended >>
  /\ \E end \in Times :
        LET c == Begin("readUntil", end)
        IN  IF abortedOnEntry
            THEN UNCHANGED << lastIteratorResult, stashedBy >> /\ Return(c, None)
            ELSE IF IsSome(lastIteratorResult) /\ stashStillBeyond(Val(lastIteratorResult), end)
            THEN UNCHANGED << lastIteratorResult, stashedBy >> /\ Return(c, Some(<< >>))
            ELSE /\ call' = [c EXCEPT !.results = lastIteratorResult]
                 /\ lastIteratorResult' = None
                 /\ stashedBy' = None
                 /\ UNCHANGED << lastReturn, delivered >>

\* readUntil, from one await of iter.next() to the next
ReadUntilStep ==
  /\ call.op = "readUntil"
  /\ iterAdvance
  /\ UNCHANGED << items, hasReturn, returned, aborted, ended, nCalls >>
  /\ IF abortedAfterPull
     THEN UNCHANGED << lastIteratorResult, stashedBy >> /\ Return(call, None)
     ELSE IF ~IsSome(iterValue)
     THEN UNCHANGED << lastIteratorResult, stashedBy >> /\ Return(call, Some(call.results))
     ELSE IF isTerminator(Val(iterValue), call.arg)
     THEN /\ lastIteratorResult' = iterValue
          /\ stashedBy' = Some(call.arg)
          /\ Return(call, Some(call.results))
     ELSE /\ call' = [call EXCEPT !.results = Append(@, Val(iterValue))]
          /\ UNCHANGED << lastReturn, delivered, lastIteratorResult, stashedBy >>

\* end(), up to the await: the iterator's return() hook is called if there is one
StartEnd ==
  /\ nCalls' = nCalls + 1
  /\ call' = Begin("end", 0)
  /\ returned' = (returned \/ hasReturn)
  /\ UNCHANGED << items, hasReturn, pos, lastIteratorResult, aborted, ended, lastReturn,
                  stashedBy, delivered >>

\* a caller of the cursor calls end
CallEnd == CanCall /\ StartEnd

\* end() completes
EndDone ==
  /\ call.op = "end"
  /\ ended' = TRUE
  /\ UNCHANGED << items, hasReturn, pos, returned, lastIteratorResult, aborted, stashedBy,
                  nCalls >>
  /\ Return(call, None)

\* the abort signal fires
Abort ==
  /\ ~aborted
  /\ aborted' = TRUE
  /\ UNCHANGED << items, hasReturn, pos, returned, lastIteratorResult, call, ended,
                  lastReturn, stashedBy, delivered, nCalls >>

\* a cursor after construction
NewIteratorCursor ==
  /\ pos = 0
  /\ returned = FALSE
  /\ lastIteratorResult = None
  /\ aborted = FALSE
  /\ call = NoCall
  /\ ended = FALSE
  /\ lastReturn = NoReturn
  /\ stashedBy = None
  /\ delivered = << >>
  /\ nCalls = 0

(***************************************************************************)
(* McapUnindexedIterableSource: an MCAP file without an index is read      *)
(* whole by initialize(), record by record, and served from memory.        *)
(***************************************************************************)
Topics == {"/a", "/b"}

ChannelIds == 1..MaxChannels

SchemaIds == {1}

SchemaDefinitions == {"d1", "d2"}

LogTimes == { k * LogTimeStep : k \in 0..MaxLogTime }

\* fromNanoSec() of @foxglove/rostime: a Time is { sec, nsec }
fromNanoSec(ns) == [sec |-> ns \div 1000000000, nsec |-> ns % 1000000000]

ReceiveTimes == { fromNanoSec(t) : t \in LogTimes }

\* compare() of @foxglove/rostime on Time values
compareTime(left, right) == IF left.sec - right.sec # 0 THEN left.sec - right.sec ELSE left.nsec - right.nsec

isLessThanSwapped(left, right) == compareTime(left, right) > 0

isLessThan(left, right) == compareTime(left, right) < 0

isGreaterThanSwapped(left, right) == compareTime(left, right) < 0

isGreaterThan(left, right) == compareTime(left, right) > 0

isTimeInRangeExclusive(time, from, to) == ~(compareTime(from, time) >= 0 \/ compareTime(to, time) <= 0)

isTimeInRangeInclusive(time, from, to) == ~(compareTime(from, time) > 0 \/ compareTime(to, time) < 0)

\* the records of an MCAP stream that processRecord distinguishes; a Message
\* whose data is corrupt makes the channel's deserialize throw
SchemaRecords == [type : {"Schema"}, id : SchemaIds, name : {"s"}, encoding : {"ros2msg"}, data : SchemaDefinitions]

ChannelRecords == [type : {"Channel"}, id : ChannelIds, schemaId : {0} \cup SchemaIds, topic : Topics, messageEncoding : {"cdr", "json"}]

MessageRecords == [type : {"Message"}, channelId : ChannelIds, logTime : LogTimes, data : {"ok", "corrupt"}]

OtherRecords == {[type |-> "Header"]}

Records == SchemaRecords \cup ChannelRecords \cup MessageRecords \cup OtherRecords

\* parseChannel() accepts the message encoding cdr with a schema in one of
\* the encodings ros2msg, ros2idl, omgidl, and throws on anything else
parseChannelThrows(channel) == channel.messageEncoding # "cdr" \/ ~IsSome(channel.schema) \/ Val(channel.schema).encoding \notin {"ros2msg", "ros2idl", "omgidl"}

\* reader.readMessage(data)
deserializeThrows(record) == record.data = "corrupt"

\* a JavaScript Map as the sequence of its entries [key, value] in insertion order
mapHas(map, key) == \E i \in DOMAIN map : map[i].key = key

mapIndex(map, key) == CHOOSE i \in DOMAIN map : map[i].key = key

mapGet(map, key) == map[mapIndex(map, key)].value

mapSet(map, key, value) == IF mapHas(map, key) THEN [map EXCEPT ![mapIndex(map, key)].value = value] ELSE Append(map, [key |-> key, value |-> value])

mapValues(map) == [i \in DOMAIN map |-> map[i].value]

\* the locals of initialize() before the first record
NoLocals == [threw |-> FALSE, schemasById |-> [id \in SchemaIds |-> None], channelInfoById |-> [id \in ChannelIds |-> None], channelIdsWithErrors |-> {}, messagesByChannel |-> << >>, startTime |-> None, endTime |-> None]

processSchemaLenient(l, record) == [l EXCEPT !.schemasById[record.id] = Some(record)]

processSchema(l, record) ==
  IF IsSome(l.schemasById[record.id]) /\ Val(l.schemasById[record.id]) # record
  THEN [l EXCEPT !.threw = TRUE]
  ELSE [l EXCEPT !.schemasById[record.id] = Some(record)]

processChannel(l, record) ==
  IF IsSome(l.channelInfoById[record.id])
  THEN IF Val(l.channelInfoById[record.id]).channel # record
       THEN [l EXCEPT !.threw = TRUE]
       ELSE l
  ELSE IF record.id \in l.channelIdsWithErrors
  THEN l
  ELSE IF record.schemaId # 0 /\ ~IsSome(l.schemasById[record.schemaId])
  THEN [l EXCEPT !.threw = TRUE]
  ELSE IF parseChannelThrows([messageEncoding |-> record.messageEncoding,
                               schema |-> IF record.schemaId = 0 THEN None
                                          ELSE l.schemasById[record.schemaId]])
  THEN [l EXCEPT !.channelIdsWithErrors = @ \cup {record.id}]
  ELSE [l EXCEPT !.channelInfoById[record.id] =
                     Some([channel |-> record,
                           schemaName |-> IF record.schemaId = 0 THEN None
                                          ELSE Some(Val(l.schemasById[record.schemaId]).name)]),
                 !.messagesByChannel = mapSet(@, record.id, << >>)]

neverReported(l, channelId) == FALSE

\* the error of the channel "has already been reported"
alreadyReported(l, channelId) == channelId \in l.channelIdsWithErrors

\* message: the record's data, which its position in the file stands for
processMessage(l, record, position) ==
  IF ~IsSome(l.channelInfoById[record.channelId]) \/ ~mapHas(l.messagesByChannel, record.channelId)
  THEN IF alreadyReported(l, record.channelId)
       THEN l
       ELSE [l EXCEPT !.threw = TRUE]
  ELSE LET channelInfo == Val(l.channelInfoById[record.channelId])
           receiveTime == fromNanoSec(record.logTime)
           msgEvent == [topic |-> channelInfo.channel.topic,
                        receiveTime |-> receiveTime,
                        message |-> position,
                        schemaName |-> IF IsSome(channelInfo.schemaName)
                                       THEN Val(channelInfo.schemaName) ELSE ""]
       IN  IF deserializeThrows(record)
           THEN [l EXCEPT !.threw = TRUE]
           ELSE [l EXCEPT !.startTime = IF ~IsSome(@) \/ isLessThan(receiveTime, Val(@))
                                        THEN Some(receiveTime) ELSE @,
                          !.endTime = IF ~IsSome(@) \/ isGreaterThan(receiveTime, Val(@))
                                      THEN Some(receiveTime) ELSE @,
                          !.messagesByChannel =
                              mapSet(@, record.channelId,
                                     Append(mapGet(@, record.channelId), msgEvent))]

processRecord(l, record, position) ==
  CASE record.type = "Schema" -> processSchema(l, record)
    [] record.type = "Channel" -> processChannel(l, record)
    [] record.type = "Message" -> processMessage(l, record, position)
    [] OTHER -> l

\* the arguments of messageIterator() and of getBackfillMessages()
IteratorArgs == [topics : SUBSET Topics, start : {None} \cup {Some(t) : t \in ReceiveTimes}, end : {None} \cup {Some(t) : t \in ReceiveTimes}, reverse : BOOLEAN]

BackfillArgs == [topics : SUBSET Topics, time : ReceiveTimes]

NoResult == [op |-> "none", args |-> << >>, threw |-> FALSE, value |-> << >>]

\* every stored event with its channel, channel by channel in the order of the Map
RECURSIVE storedEvents(_)
storedEvents(map) ==
  IF map = << >> THEN << >>
  ELSE storedEvents(SubSeq(map, 1, Len(map) - 1))
         \o [i \in DOMAIN map[Len(map)].value |->
               [type |-> "message-event", connectionId |-> map[Len(map)].key,
                msgEvent |-> map[Len(map)].value[i]]]

\* Array.prototype.sort with the comparator of line 285; the sort is stable
RECURSIVE insertByReceiveTime(_, _)
insertByReceiveTime(sorted, x) ==
  IF sorted = << >> THEN << x >>
  ELSE IF compareTime(sorted[Len(sorted)].msgEvent.receiveTime, x.msgEvent.receiveTime) <= 0
  THEN Append(sorted, x)
  ELSE Append(insertByReceiveTime(SubSeq(sorted, 1, Len(sorted) - 1), x), sorted[Len(sorted)])

leftUnsorted(resultMessages) == resultMessages

RECURSIVE sortByReceiveTime(_)
sortByReceiveTime(resultMessages) ==
  IF resultMessages = << >> THEN << >>
  ELSE insertByReceiveTime(sortByReceiveTime(SubSeq(resultMessages, 1, Len(resultMessages) - 1)),
                           resultMessages[Len(resultMessages)])

matchesIterator(result, topics, from, to) ==
  /\ isTimeInRangeInclusive(result.msgEvent.receiveTime, from, to)
  /\ result.msgEvent.topic \in topics

\* everything the generator yields, in order
messageIterator(map, args, defaultStart, defaultEnd) ==
  LET from == IF IsSome(args.start) THEN args.start ELSE defaultStart
      to == IF IsSome(args.end) THEN args.end ELSE defaultEnd
  IN  IF args.topics = {} \/ ~IsSome(from) \/ ~IsSome(to)
      THEN << >>
      ELSE LET keep(result) == matchesIterator(result, args.topics, Val(from), Val(to))
           IN  sortByReceiveTime(SelectSeq(storedEvents(map), keep))

RECURSIVE backfillByTopic(_, _)
backfillByTopic(results, args) ==
  IF results = << >> THEN << >>
  ELSE LET msgEvent == results[Len(results)].msgEvent
           before == backfillByTopic(SubSeq(results, 1, Len(results) - 1), args)
       IN  IF compareTime(msgEvent.receiveTime, args.time) <= 0 /\ msgEvent.topic \in args.topics
           THEN mapSet(before, msgEvent.topic, msgEvent)
           ELSE before

getBackfillMessages(map, args) == mapValues(backfillByTopic(storedEvents(map), args))

\* initialize() reads the next record of the stream; its locals are gone once
\* it has thrown or returned
ProcessRecord ==
  /\ phase = "reading" /\ nRecords < MaxRecords
  /\ \E record \in Records :
        LET l == processRecord([threw |-> FALSE, schemasById |-> schemasById,
                                channelInfoById |-> channelInfoById,
                                channelIdsWithErrors |-> channelIdsWithErrors,
                                messagesByChannel |-> messagesByChannel,
                                startTime |-> startTime, endTime |-> endTime],
                               record, nRecords + 1)
            after == IF l.threw THEN NoLocals ELSE l
        IN  /\ phase' = IF l.threw THEN "failed" ELSE "reading"
            /\ schemasById' = after.schemasById
            /\ channelInfoById' = after.channelInfoById
            /\ channelIdsWithErrors' = after.channelIdsWithErrors
            /\ messagesByChannel' = after.messagesByChannel
            /\ startTime' = after.startTime
            /\ endTime' = after.endTime
            /\ lastResult' = IF l.threw
                             THEN [op |-> "initialize", args |-> << >>, threw |-> TRUE,
                                   value |-> << >>]
                             ELSE lastResult
            /\ lastRecord' = Some(record)
            /\ faulty' = faulty \cup l.channelIdsWithErrors
            /\ channelRecords' = IF l.threw THEN {}
                                 ELSE IF record.type = "Channel" THEN channelRecords \cup {record}
                                 ELSE channelRecords
  /\ nRecords' = nRecords + 1
  /\ UNCHANGED << msgEventsByChannel, mcapStart, mcapEnd, nQueries, topicStats >>

\* the loop over channelInfoById.values(): topicStats.set(channel.topic,
\* { numMessages }) for the channels in the order they were added, which is
\* the order of the entries of messagesByChannel
RECURSIVE topicStatsOf(_, _)
topicStatsOf(infos, byChannel) ==
  IF byChannel = << >> THEN << >>
  ELSE LET last == byChannel[Len(byChannel)]
       IN  mapSet(topicStatsOf(infos, SubSeq(byChannel, 1, Len(byChannel) - 1)),
                  Val(infos[last.key]).channel.topic,
                  [numMessages |-> Len(last.value)])

\* the stream is done: initialize() publishes what it read and returns
EndOfStream ==
  /\ phase = "reading"
  /\ phase' = "initialized"
  /\ msgEventsByChannel' = Some(messagesByChannel)
  /\ mcapStart' = IF IsSome(startTime) THEN startTime ELSE Some([sec |-> 0, nsec |-> 0])
  /\ mcapEnd' = IF IsSome(endTime) THEN endTime ELSE Some([sec |-> 0, nsec |-> 0])
  /\ lastResult' = [op |-> "initialize", args |-> << >>, threw |-> FALSE,
                    value |-> << mcapStart', mcapEnd' >>]
  /\ schemasById' = NoLocals.schemasById
  /\ channelInfoById' = NoLocals.channelInfoById
  /\ channelIdsWithErrors' = NoLocals.channelIdsWithErrors
  /\ messagesByChannel' = NoLocals.messagesByChannel
  /\ startTime' = NoLocals.startTime
  /\ endTime' = NoLocals.endTime
  /\ lastRecord' = None
  /\ channelRecords' = {}
  /\ topicStats' = Some(topicStatsOf(channelInfoById, messagesByChannel))
  /\ UNCHANGED << nRecords, nQueries, faulty >>

\* a consumer drains one message iterator
MessageIterator ==
  /\ nQueries < MaxQueries
  /\ nQueries' = nQueries + 1
  /\ IF ~IsSome(msgEventsByChannel)
     THEN lastResult' = [op |-> "messageIterator", args |-> << >>, threw |-> TRUE,
                         value |-> << >>]
     ELSE \E args \in IteratorArgs :
             lastResult' = [op |-> "messageIterator", args |-> args, threw |-> FALSE,
                            value |-> messageIterator(Val(msgEventsByChannel), args,
                                                      mcapStart, mcapEnd)]
  /\ UNCHANGED << phase, nRecords, schemasById, channelInfoById, channelIdsWithErrors,
                  messagesByChannel, startTime, endTime, msgEventsByChannel, mcapStart,
                  mcapEnd, lastRecord, faulty, channelRecords, topicStats >>

GetBackfillMessages ==
  /\ nQueries < MaxQueries
  /\ nQueries' = nQueries + 1
  /\ IF ~IsSome(msgEventsByChannel)
     THEN lastResult' = [op |-> "getBackfillMessages", args |-> << >>, threw |-> TRUE,
                         value |-> << >>]
     ELSE \E args \in BackfillArgs :
             lastResult' = [op |-> "getBackfillMessages", args |-> args, threw |-> FALSE,
                            value |-> getBackfillMessages(Val(msgEventsByChannel), args)]
  /\ UNCHANGED << phase, nRecords, schemasById, channelInfoById, channelIdsWithErrors,
                  messagesByChannel, startTime, endTime, msgEventsByChannel, mcapStart,
                  mcapEnd, lastRecord, faulty, channelRecords, topicStats >>

\* a source after construction
NewMcapUnindexedIterableSource ==
  /\ phase = "reading"
  /\ nRecords = 0
  /\ schemasById = NoLocals.schemasById
  /\ channelInfoById = NoLocals.channelInfoById
  /\ channelIdsWithErrors = NoLocals.channelIdsWithErrors
  /\ messagesByChannel = NoLocals.messagesByChannel
  /\ startTime = NoLocals.startTime
  /\ endTime = NoLocals.endTime
  /\ msgEventsByChannel = None
  /\ mcapStart = None
  /\ mcapEnd = None
  /\ lastResult = NoResult
  /\ nQueries = 0
  /\ lastRecord = None
  /\ faulty = {}
  /\ channelRecords = {}
  /\ topicStats = None

(***************************************************************************)
(* sizeInBytes of a message event: the larger of the size on the wire and  *)
(* an estimate of the deserialized message's size in memory.               *)
(***************************************************************************)
\* a JavaScript number: NaN, or the number n
NaN == [nan |-> TRUE, n |-> 0]

Num(n) == [nan |-> FALSE, n |-> n]

\* ToNumber of a value that is undefined or a number
toNumber(value) == IF value = None THEN NaN ELSE Num(Val(value))

\* Math.max of two values converted to numbers
mathMax(x, y) == IF x.nan \/ y.nan THEN NaN ELSE Num(IF x.n >= y.n THEN x.n ELSE y.n)

\* record.data.byteLength
WireSizes == { k * SMALL_INTEGER_SIZE : k \in 0..MaxWireSize }

\* what estimateObjectSize() can return for a deserialized message
SizeEstimates == SMALL_INTEGER_SIZE..(SMALL_INTEGER_SIZE + MaxEstimate)

\* estimateMessageSize(topic, msg) of initialize(): the size it returns and the
\* cache it leaves; sizeEstimate is estimateObjectSize(msg)
estimateMessageSize(cache, topic, sizeEstimate) ==
  IF cache[topic] # None
  THEN [size |-> Val(cache[topic]), cache |-> cache]
  ELSE [size |-> sizeEstimate, cache |-> [cache EXCEPT ![topic] = Some(sizeEstimate)]]

\* McapUnindexedIterableSource.initialize stores the event of a Message record
McapMessage ==
  /\ sizeSource = "mcap"
  /\ Len(emitted) < MaxEmitted
  /\ \E topic \in Topics, byteLength \in WireSizes, sizeEstimate \in SizeEstimates :
        LET estimated == estimateMessageSize(messageSizeEstimateByTopic, topic, sizeEstimate)
        IN  /\ messageSizeEstimateByTopic' = estimated.cache
            /\ emitted' = Append(emitted,
                                 [topic |-> topic, byteLength |-> byteLength,
                                  estimate |-> sizeEstimate,
                                  sizeInBytes |-> mathMax(Num(byteLength), Num(estimated.size))])
  /\ UNCHANGED sizeSource

\* BagIterableSource.messageIterator yields the event of a bag message; the
\* estimate of the message is what estimateObjectSize would give for it
BagMessage ==
  /\ sizeSource = "bag"
  /\ Len(emitted) < MaxEmitted
  /\ \E topic \in Topics, byteLength \in WireSizes, sizeEstimate \in SizeEstimates :
        LET msgSizeEstimate == messageSizeEstimateByTopic[topic]
        IN  emitted' = Append(emitted,
                              [topic |-> topic, byteLength |-> byteLength,
                               estimate |-> sizeEstimate,
                               sizeInBytes |-> mathMax(Num(byteLength), toNumber(msgSizeEstimate))])
  /\ UNCHANGED << sizeSource, messageSizeEstimateByTopic >>

\* a source that has not built an event yet
NoEventBuilt ==
  /\ messageSizeEstimateByTopic = [topic \in Topics |-> None]
  /\ emitted = << >>

(***************************************************************************)
(* WorkerIterableSource (foreground), the worker entry point and the       *)
(* McapIterableSource facade.                                              *)
(***************************************************************************)
FacadeIds == 0..MaxInits

InProcess == 0

NoInit == [pc |-> "idle", worker |-> 0, again |-> FALSE, replaced |-> FALSE]

\* new McapIterableSource(source)
NewMcapIterableSource == [sourceImpl |-> None, pc |-> "idle", again |-> FALSE, replaced |-> FALSE]

\* new WorkerIterableSource(args)
NewWorkerIterableSource ==
  /\ sourceWorkerRemote = None
  /\ disposeRemote = None
  /\ workers = << >>
  /\ init = NoInit
  /\ facades = [f \in FacadeIds |-> NewMcapIterableSource]
  /\ initLog = {}
  /\ initialized = {}
  /\ terminated = FALSE
  /\ lastQuery = None

\* wrapped[Comlink.releaseProxy]() of the worker's proxy; the worker is not told to stop
releaseProxy(ws, w) == [ws EXCEPT ![w].released = TRUE]

\* this.#disposeRemote?.()
callDisposeRemote(ws) == IF disposeRemote = None THEN ws ELSE releaseProxy(ws, Val(disposeRemote))

\* the workers that were created and not terminated
Running == { w \in DOMAIN workers : workers[w].running }

\* McapUnindexedIterableSource.messageIterator / getBackfillMessages throw
\* 'initialization not completed' until initialize() has set #msgEventsByChannel
sourceImplThrows(status) == status # "initialized"

\* McapIterableSource.messageIterator / getBackfillMessages: throws
\* 'Invariant: uninitialized' without #sourceImpl, else delegates
facadeQueryThrows(facade) == facade.sourceImpl = None \/ sourceImplThrows(Val(facade.sourceImpl))

\* lines 30..40 of WorkerIterableSource.initialize, up to the await of wrapped(initArgs)
WorkerInitialize ==
  /\ init.pc = "idle"
  /\ Len(workers) < MaxInits
  /\ LET w == Len(workers) + 1
     IN  /\ workers' = Append(callDisposeRemote(workers), [released |-> FALSE, running |-> TRUE])
         /\ disposeRemote' = Some(w)
         /\ init' = [pc |-> "wrapped", worker |-> w,
                     again |-> "WorkerIterableSource" \in initialized, replaced |-> FALSE]
  /\ terminated' = FALSE
  /\ UNCHANGED << sourceWorkerRemote, facades, initLog, initialized, lastQuery >>

\* the worker's initialize(args) has built its sources and answered; line 40
\* assigns the remote and line 41 calls its initialize()
WrappedReturns ==
  /\ init.pc = "wrapped"
  /\ sourceWorkerRemote' = Some(init.worker)
  /\ init' = [init EXCEPT !.pc = "remoteInitialize",
                           !.replaced = sourceWorkerRemote # None]
  /\ facades' = [facades EXCEPT ![init.worker].pc = "opening"]
  /\ UNCHANGED << disposeRemote, workers, initLog, initialized, terminated, lastQuery >>

\* the call was in flight when its proxy was released: a build of Comlink
\* that drops it rejects the await of line 40
WrappedRejects ==
  /\ init.pc = "wrapped"
  /\ workers[init.worker].released
  /\ initLog' = initLog \cup {[source |-> "WorkerIterableSource", again |-> init.again,
                                threw |-> TRUE, replaced |-> FALSE]}
  /\ init' = NoInit
  /\ UNCHANGED << sourceWorkerRemote, disposeRemote, workers, facades, initialized,
                  terminated, lastQuery >>

\* McapIterableSource.initialize is called on the facade used in process
FacadeInitialize ==
  /\ facades[InProcess].pc = "idle"
  /\ Cardinality({e \in initLog : e.source = "McapIterableSource"}) < MaxInits
  /\ facades' = [facades EXCEPT ![InProcess].pc = "opening",
                                 ![InProcess].again = "McapIterableSource" \in initialized,
                                 ![InProcess].replaced = FALSE]
  /\ UNCHANGED << sourceWorkerRemote, disposeRemote, workers, init, initLog, initialized,
                  terminated, lastQuery >>

\* initialize() of facade f has ended: its caller resumes
initializeEnded(f, threw) ==
  IF f = InProcess
  THEN /\ initLog' = initLog \cup {[source |-> "McapIterableSource", again |-> facades[f].again,
                                     threw |-> threw, replaced |-> facades[f].replaced]}
       /\ initialized' = IF threw THEN initialized ELSE initialized \cup {"McapIterableSource"}
       /\ UNCHANGED init
  ELSE IF init.pc = "remoteInitialize" /\ init.worker = f
  THEN /\ initLog' = initLog \cup {[source |-> "WorkerIterableSource", again |-> init.again,
                                     threw |-> threw, replaced |-> init.replaced]}
       /\ initialized' = IF threw THEN initialized ELSE initialized \cup {"WorkerIterableSource"}
       /\ init' = NoInit
  ELSE UNCHANGED << initLog, initialized, init >>

\* lines 50..114 of McapIterableSource.initialize throw before #sourceImpl is
\* assigned: the file is unreadable, the fetch fails, Content-Length is missing
FacadeOpenThrows(f) ==
  /\ facades[f].pc = "opening"
  /\ facades' = [facades EXCEPT ![f].pc = "idle"]
  /\ initializeEnded(f, TRUE)
  /\ UNCHANGED << sourceWorkerRemote, disposeRemote, workers, terminated, lastQuery >>

\* lines 50..114 assign a new McapUnindexedIterableSource to #sourceImpl
FacadeOpen(f) ==
  /\ facades[f].pc = "opening"
  /\ facades' = [facades EXCEPT ![f].pc = "sourceImplInitialize",
                                 ![f].replaced = facades[f].sourceImpl # None,
                                 ![f].sourceImpl = Some("new")]
  /\ UNCHANGED << sourceWorkerRemote, disposeRemote, workers, init, initLog, initialized,
                  terminated, lastQuery >>

\* line 116: this.#sourceImpl.initialize() returns or throws
FacadeSourceImplInitialize(f) ==
  /\ facades[f].pc = "sourceImplInitialize"
  /\ \E threw \in BOOLEAN :
        /\ facades' = [facades EXCEPT ![f].pc = "idle",
                                       ![f].sourceImpl = Some(IF threw THEN "failed" ELSE "initialized")]
        /\ initializeEnded(f, threw)
  /\ UNCHANGED << sourceWorkerRemote, disposeRemote, workers, terminated, lastQuery >>

\* WorkerIterableSource.terminate
Terminate ==
  /\ workers' = callDisposeRemote(workers)
  /\ disposeRemote' = None
  /\ sourceWorkerRemote' = None
  /\ terminated' = TRUE
  /\ UNCHANGED << init, facades, initLog, initialized, lastQuery >>

WorkerQueries == {"messageIterator", "getMessageCursor", "getBackfillMessages"}

FacadeQueries == {"messageIterator", "getBackfillMessages"}

\* a query on the WorkerIterableSource, consumed until it delivers or fails:
\* 'WorkerIterableSource is not initialized' without a remote, else the
\* outcome of the worker's source
WorkerQuery ==
  /\ \E op \in WorkerQueries :
        LET threw == \/ sourceWorkerRemote = None
                     \/ facadeQueryThrows(facades[Val(sourceWorkerRemote)])
        IN  lastQuery' = Some([source |-> "WorkerIterableSource", op |-> op,
                               threw |-> threw, delivered |-> ~threw,
                               initialized |-> "WorkerIterableSource" \in initialized,
                               terminated |-> terminated])
  /\ UNCHANGED << sourceWorkerRemote, disposeRemote, workers, init, facades, initLog,
                  initialized, terminated >>

\* a query on the McapIterableSource used in process
FacadeQuery ==
  /\ \E op \in FacadeQueries :
        LET threw == facadeQueryThrows(facades[InProcess])
        IN  lastQuery' = Some([source |-> "McapIterableSource", op |-> op,
                               threw |-> threw, delivered |-> ~threw,
                               initialized |-> "McapIterableSource" \in initialized,
                               terminated |-> FALSE])
  /\ UNCHANGED << sourceWorkerRemote, disposeRemote, workers, init, facades, initLog,
                  initialized, terminated >>

(***************************************************************************)
(* WorkerIterableSource.messageIterator over the cursor of the worker's    *)
(* source: the generator runs from one await or yield to the next.         *)
(***************************************************************************)
IterSources == { seq \in UNION { [1..n -> Items] : n \in 0..MaxIterItems } : InTimeOrder(seq) }

\* mutant: the loop breaks after the first batch whatever it holds
batchIsLastAlways(results) == TRUE

\* line 60: !results || results.length === 0
batchIsLast(results) == results = None \/ Len(Val(results)) = 0

NewMessageIterator ==
  /\ wPc = "start"
  /\ batchRest = << >>
  /\ yielded = << >>
  /\ stopped = FALSE
  /\ endCalls = 0
  /\ proxyReleased = FALSE
  /\ failed = FALSE

\* the consumer's first next(): the generator gets its cursor and awaits
\* cursor.nextBatch(17)
IterStart ==
  /\ wPc = "start"
  /\ StartNextBatch(BatchWindow)
  /\ wPc' = "nextBatch"
  /\ UNCHANGED << batchRest, yielded, stopped, endCalls, proxyReleased, failed >>

\* the worker's nextBatch advances; when it returns the generator breaks out
\* of the loop or yields the first result of the batch, and a return() the
\* consumer made meanwhile takes effect at that yield
IterBatchStep ==
  /\ wPc = "nextBatch"
  /\ NextBatchStep
  /\ IF call'.op # "none"
     THEN UNCHANGED << wPc, batchRest, yielded >>
     ELSE IF batchIsLast(lastReturn'.value)
     THEN wPc' = "finally" /\ UNCHANGED << batchRest, yielded >>
     ELSE /\ wPc' = IF stopped THEN "finally" ELSE "suspended"
          /\ yielded' = Append(yielded, Head(Val(lastReturn'.value)))
          /\ batchRest' = Tail(Val(lastReturn'.value))
  /\ UNCHANGED << stopped, endCalls, proxyReleased, failed >>

\* the source iterator of the worker throws: nextBatch rejects and the
\* generator leaves the loop through finally
IterBatchThrows ==
  /\ wPc = "nextBatch"
  /\ call.op = "nextBatch"
  /\ call' = NoCall
  /\ wPc' = "finally"
  /\ failed' = TRUE
  /\ UNCHANGED << items, hasReturn, pos, returned, lastIteratorResult, aborted, ended,
                  lastReturn, stashedBy, delivered, nCalls >>
  /\ UNCHANGED << batchRest, yielded, stopped, endCalls, proxyReleased >>

\* the consumer calls next() on the suspended generator: yield* hands out the
\* next result of the batch, or the loop awaits the next batch
ConsumerNext ==
  /\ wPc = "suspended"
  /\ IF batchRest # << >>
     THEN /\ yielded' = Append(yielded, Head(batchRest))
          /\ batchRest' = Tail(batchRest)
          /\ UNCHANGED << wPc, cursorVars >>
     ELSE /\ StartNextBatch(BatchWindow)
          /\ wPc' = "nextBatch"
          /\ UNCHANGED << batchRest, yielded >>
  /\ UNCHANGED << stopped, endCalls, proxyReleased, failed >>

\* the consumer calls return(): a suspended generator resumes in finally, a
\* running one when it next yields
ConsumerReturn ==
  /\ wPc \in {"suspended", "nextBatch"}
  /\ ~stopped
  /\ wPc' = IF wPc = "suspended" THEN "finally" ELSE wPc
  /\ stopped' = TRUE
  /\ UNCHANGED << batchRest, yielded, cursorVars, endCalls, proxyReleased, failed >>

\* finally: await cursor.end(), which awaits messageCursor.end()
IterFinally ==
  /\ wPc = "finally"
  /\ StartEnd
  /\ wPc' = "end"
  /\ endCalls' = endCalls + 1
  /\ UNCHANGED << batchRest, yielded, stopped, proxyReleased, failed >>

\* mutant: the proxy is released after a successful end() only
releasedOnSuccess(threw) == ~threw

\* end() of the foreground cursor: finally { messageCursor[releaseProxy]() }
releasedAfterEnd(threw) == TRUE

\* messageCursor.end() completes, the proxy is released and the generator is done
IterEndDone ==
  /\ wPc = "end"
  /\ EndDone
  /\ wPc' = "done"
  /\ proxyReleased' = releasedAfterEnd(FALSE)
  /\ UNCHANGED << batchRest, yielded, stopped, endCalls, failed >>

\* messageCursor.end() rejects because the return hook threw: the proxy is
\* released and the generator throws
IterEndThrows ==
  /\ wPc = "end"
  /\ call.op = "end"
  /\ hasReturn
  /\ call' = NoCall
  /\ wPc' = "done"
  /\ proxyReleased' = releasedAfterEnd(TRUE)
  /\ failed' = TRUE
  /\ UNCHANGED << items, hasReturn, pos, returned, lastIteratorResult, aborted, ended,
                  lastReturn, stashedBy, delivered, nCalls >>
  /\ UNCHANGED << batchRest, yielded, stopped, endCalls >>

(***************************************************************************)
(* abortSignalTransferHandler: serialize runs in the sender, deserialize   *)
(* in the receiver; the message channel keeps what was posted until the    *)
(* receiver's port has a handler.                                          *)
(***************************************************************************)
TransferIds == 1..MaxTransfers

NoTransfer == [pc |-> "none", aborted |-> FALSE, listening |-> FALSE, queued |-> FALSE, onmessage |-> FALSE, signalAborted |-> FALSE]

NoSignalSent ==
  /\ originalAborted = FALSE
  /\ transfers = [t \in TransferIds |-> NoTransfer]

\* mutant: serialize reports the signal as not aborted
abortedNever(signalAborted) == FALSE

\* serialize: abortSignal.aborted as written into the wire value
abortedAtSerialize(signalAborted) == signalAborted

\* 'abort' is dispatched once, to the listeners added before the signal aborted
listenerAdded(signalAborted) == ~signalAborted

\* serialize(abortSignal): a channel, a listener on the signal, the wire value
Serialize(t) ==
  /\ transfers[t].pc = "none"
  /\ transfers' = [transfers EXCEPT ![t].pc = "serialized",
                                     ![t].listening = listenerAdded(originalAborted),
                                     ![t].aborted = abortedAtSerialize(originalAborted)]
  /\ UNCHANGED originalAborted

\* the sender's signal aborts: every listener posts 'aborted' on its port1
AbortOriginal ==
  /\ ~originalAborted
  /\ originalAborted' = TRUE
  /\ transfers' = [t \in TransferIds |->
                     IF transfers[t].listening
                     THEN [transfers[t] EXCEPT !.queued = TRUE]
                     ELSE transfers[t]]

\* deserialize([aborted, msgPort]): a new controller, aborted at once or on
\* the first message of the port
Deserialize(t) ==
  /\ transfers[t].pc = "serialized"
  /\ transfers' = [transfers EXCEPT ![t].pc = "deserialized",
                                     ![t].signalAborted = transfers[t].aborted,
                                     ![t].onmessage = ~transfers[t].aborted]
  /\ UNCHANGED originalAborted

\* the port delivers the queued message to its onmessage handler
PortMessage(t) ==
  /\ transfers[t].onmessage /\ transfers[t].queued
  /\ transfers' = [transfers EXCEPT ![t].queued = FALSE, ![t].signalAborted = TRUE]
  /\ UNCHANGED originalAborted

vars == << cfVars, cursorVars, mcapVars, sizeVars, workerVars, iterVars, abortVars >>

(***************************************************************************)
(* The CachedFilelike with its reader and streams.                         *)
(***************************************************************************)
\* the components a specification does not exercise stay as constructed
IdleCF ==
  /\ remoteSize = FileSize /\ cacheSizeInBytes = FileSize /\ maxReads = 0
  /\ hasCallback = FALSE
  /\ NewCachedFilelike

IdleCursor ==
  /\ items = << >> /\ hasReturn = FALSE
  /\ NewIteratorCursor

IdleMcap == NewMcapUnindexedIterableSource

IdleSize == sizeSource = "mcap" /\ NoEventBuilt

IdleWorker == NewWorkerIterableSource

IdleIter == NewMessageIterator

IdleAbort == NoSignalSent

InitCF ==
  /\ \E c \in Configs :
        remoteSize = c[1] /\ cacheSizeInBytes = c[2] /\ maxReads = c[3]
  /\ hasCallback \in BOOLEAN
  /\ NewCachedFilelike
  /\ IdleCursor /\ IdleMcap /\ IdleSize /\ IdleWorker /\ IdleIter /\ IdleAbort

NextCF ==
  \/ Read
  \/ OpenDone
  \/ OpenFail
  \/ StreamError
  \/ StreamData
  \/ StreamEnd
  \/ AbortError
  \/ DataAfterDestroy
  \/ EndAfterDestroy
  \/ Tick

SpecCF == InitCF /\ [][NextCF]_vars

\* The event loop and the network keep going: a pending fileReader.open()
\* is answered, and a stream that is open, not destroyed and has bytes left
\* to deliver delivers a chunk unless it ends or fails first.
FairCF == WF_vars(OpenDone \/ OpenFail) /\ WF_vars(StreamData)

\* a file that fits the cache, read without a reconnect callback
InitCFFair ==
  /\ remoteSize = FairFileSize /\ cacheSizeInBytes = FairFileSize /\ maxReads = FairReads
  /\ hasCallback = FALSE
  /\ NewCachedFilelike
  /\ IdleCursor /\ IdleMcap /\ IdleSize /\ IdleWorker /\ IdleIter /\ IdleAbort

SpecCFFair == InitCFFair /\ [][NextCF]_vars /\ FairCF

(***************************************************************************)
(* The IteratorCursor with its iterator and one caller.                    *)
(***************************************************************************)
InitCursor ==
  /\ items \in Sources
  /\ hasReturn \in BOOLEAN
  /\ NewIteratorCursor
  /\ IdleCF /\ IdleMcap /\ IdleSize /\ IdleWorker /\ IdleIter /\ IdleAbort

NextCursor ==
  \/ (CallNext /\ UNCHANGED othersCursor)
  \/ (NextDone /\ UNCHANGED othersCursor)
  \/ (CallNextBatch /\ UNCHANGED othersCursor)
  \/ (NextBatchStep /\ UNCHANGED othersCursor)
  \/ (CallReadUntil /\ UNCHANGED othersCursor)
  \/ (ReadUntilStep /\ UNCHANGED othersCursor)
  \/ (CallEnd /\ UNCHANGED othersCursor)
  \/ (EndDone /\ UNCHANGED othersCursor)
  \/ (Abort /\ UNCHANGED othersCursor)

SpecCursor == InitCursor /\ [][NextCursor]_vars

(***************************************************************************)
(* The MCAP unindexed source with its stream and its consumers.            *)
(***************************************************************************)
InitMcap ==
  /\ NewMcapUnindexedIterableSource
  /\ IdleCF /\ IdleCursor /\ IdleSize /\ IdleWorker /\ IdleIter /\ IdleAbort

NextMcap ==
  \/ (ProcessRecord /\ UNCHANGED othersMcap)
  \/ (EndOfStream /\ UNCHANGED othersMcap)
  \/ (MessageIterator /\ UNCHANGED othersMcap)
  \/ (GetBackfillMessages /\ UNCHANGED othersMcap)

SpecMcap == InitMcap /\ [][NextMcap]_vars

(***************************************************************************)
(* The sizes of the message events of an MCAP source and of a bag source.  *)
(***************************************************************************)
InitSize ==
  /\ sizeSource \in {"mcap", "bag"}
  /\ NoEventBuilt
  /\ IdleCF /\ IdleCursor /\ IdleMcap /\ IdleWorker /\ IdleIter /\ IdleAbort

NextSize ==
  \/ (McapMessage /\ UNCHANGED othersSize)
  \/ (BagMessage /\ UNCHANGED othersSize)

SpecSize == InitSize /\ [][NextSize]_vars

(***************************************************************************)
(* The life cycle of a WorkerIterableSource and of a McapIterableSource.   *)
(***************************************************************************)
InitWorker ==
  /\ NewWorkerIterableSource
  /\ IdleCF /\ IdleCursor /\ IdleMcap /\ IdleSize /\ IdleIter /\ IdleAbort

NextWorker ==
  \/ (WorkerInitialize /\ UNCHANGED othersWorker)
  \/ (WrappedReturns /\ UNCHANGED othersWorker)
  \/ (WrappedRejects /\ UNCHANGED othersWorker)
  \/ (FacadeInitialize /\ UNCHANGED othersWorker)
  \/ (\E f \in FacadeIds : FacadeOpenThrows(f) /\ UNCHANGED othersWorker)
  \/ (\E f \in FacadeIds : FacadeOpen(f) /\ UNCHANGED othersWorker)
  \/ (\E f \in FacadeIds : FacadeSourceImplInitialize(f) /\ UNCHANGED othersWorker)
  \/ (Terminate /\ UNCHANGED othersWorker)
  \/ (WorkerQuery /\ UNCHANGED othersWorker)
  \/ (FacadeQuery /\ UNCHANGED othersWorker)

SpecWorker == InitWorker /\ [][NextWorker]_vars

(***************************************************************************)
(* WorkerIterableSource.messageIterator consumed in the foreground.        *)
(***************************************************************************)
InitWorkerIter ==
  /\ items \in IterSources
  /\ hasReturn \in BOOLEAN
  /\ NewIteratorCursor
  /\ NewMessageIterator
  /\ IdleCF /\ IdleMcap /\ IdleSize /\ IdleWorker /\ IdleAbort

NextWorkerIter ==
  \/ (IterStart /\ UNCHANGED othersIter)
  \/ (IterBatchStep /\ UNCHANGED othersIter)
  \/ (IterBatchThrows /\ UNCHANGED othersIter)
  \/ (IterEndThrows /\ UNCHANGED othersIter)
  \/ (ConsumerNext /\ UNCHANGED othersIter)
  \/ (ConsumerReturn /\ UNCHANGED othersIter)
  \/ (IterFinally /\ UNCHANGED othersIter)
  \/ (IterEndDone /\ UNCHANGED othersIter)

SpecWorkerIter == InitWorkerIter /\ [][NextWorkerIter]_vars

(***************************************************************************)
(* An AbortSignal crossing the worker boundary.  The event loops of both   *)
(* sides keep running: a message that can be delivered is delivered, and a *)
(* wire value that was sent is deserialized.                               *)
(***************************************************************************)
InitAbort ==
  /\ NoSignalSent
  /\ IdleCF /\ IdleCursor /\ IdleMcap /\ IdleSize /\ IdleWorker /\ IdleIter

NextAbort ==
  \/ (\E t \in TransferIds : Serialize(t) /\ UNCHANGED othersAbort)
  \/ (AbortOriginal /\ UNCHANGED othersAbort)
  \/ (\E t \in TransferIds : Deserialize(t) /\ UNCHANGED othersAbort)
  \/ (\E t \in TransferIds : PortMessage(t) /\ UNCHANGED othersAbort)

SpecAbort == InitAbort /\ [][NextAbort]_vars

FairAbort == \A t \in TransferIds : WF_vars(Deserialize(t) /\ UNCHANGED othersAbort) /\ WF_vars(PortMessage(t) /\ UNCHANGED othersAbort)

SpecAbortFair == SpecAbort /\ FairAbort


(***************************************************************************)
(* Properties of the CachedFilelike and its streams.                       *)
(***************************************************************************)
Settled == { lastStep.settled[i] : i \in DOMAIN lastStep.settled }
Queue == { readRequests[i] : i \in DOMAIN readRequests }
ResidentBytes == DOMAIN virtualBuffer.data
ActiveStreamEvent(type) == lastStep.event.type = type /\ ~lastStep.event.stale
StaleStreamEvent(type) == lastStep.event.type = type /\ lastStep.event.stale

\* C1: every read that resolves returns exactly the bytes [offset, offset+length)
\* of the file, whatever the chunking, the replaced connections and the errors
C1_ReadReturnsFileBytes ==
  \A r \in Settled :
     r.outcome = "resolved" => r.data = FileSlice(r.range.start, r.range.end)

\* a read is resolved by data that arrived after a stream error and a reconnect
C1_Witness ==
  /\ nErrors > 0
  /\ ActiveStreamEvent("data")
  /\ \E r \in Settled : r.outcome = "resolved" /\ r.range.end - r.range.start > 1

\* C2: at most one stream is live (returned by fetch, not destroyed, not ended
\* by an error)
LiveStreams == { k \in Slots : streams[k].phase \in {"open", "ended"} /\ ~streams[k].aborted }

C2_AtMostOneLiveStream == Cardinality(LiveStreams) <= 1

\* a new stream was opened while the previous one had not finished: the previous
\* one is still there, destroyed
C2_Witness ==
  /\ lastStep.fetched # << >>
  /\ Cardinality(LiveStreams) = 1
  /\ \E k \in Slots : streams[k].phase = "open" /\ streams[k].aborted


\* the range the filelike reads ahead when no request is queued: the rest of the
\* file after the last resolved request (the whole file once that is cached) for
\* a cache as large as the file, one cache size after the last resolved request
\* for a smaller cache
ReadAheadBytes ==
  IF ~IsSome(fileSize) THEN {}
  ELSE IF cacheSizeInBytes >= Val(fileSize)
  THEN LET from == IF IsSome(lastResolvedCallbackEnd) THEN Val(lastResolvedCallbackEnd) ELSE 0
           rest == Range(from, Val(fileSize))
       IN  IF isRangeCoveredByRanges(rest, getRangesWithData(virtualBuffer))
           THEN 0 .. (Val(fileSize) - 1)
           ELSE from .. (Val(fileSize) - 1)
  ELSE IF IsSome(lastResolvedCallbackEnd)
  THEN Val(lastResolvedCallbackEnd) ..
         (Min(Val(lastResolvedCallbackEnd) + cacheSizeInBytes, Val(fileSize)) - 1)
  ELSE {}

\* no request is queued and every byte of the read-ahead range is cached
NothingToFetch == readRequests = << >> /\ ReadAheadBytes \subseteq ResidentBytes

NoStreamRejection == \A r \in Settled : r.outcome = "rejected" => r.error.kind # "stream"

\* every queued request misses a byte: a request is resolved in the very step
\* that makes its last byte resident
NoResolvableRequestQueued ==
  ~closed => \A q \in Queue : ~hasData(virtualBuffer, q.range.start, q.range.end)

RejectAll(queue, error) ==
  LET pending == SelectSeq(queue, LAMBDA q : ~q.settled)
  IN  [i \in DOMAIN pending |-> Rejected(pending[i].range, error)]

ErrorWithinWindow ==
  IsSome(lastErrorTime) /\ now - Val(lastErrorTime) < ERROR_WINDOW_MS

C4_WitnessLate ==
  /\ ~hasCallback /\ ~closed /\ ActiveStreamEvent("error") /\ nErrors > 1
  /\ now >= ERROR_WINDOW_MS /\ lastStep.fetched # << >>

Last(seq) == seq[Len(seq)]

\* C5: the callback gets true exactly at an error of the active stream with no
\* error outstanding, false exactly at the first data chunk after such an error:
\* its arguments alternate true, false, true, ...
C5_CallbackAlternates ==
  [][ /\ (cbCalls' = Append(cbCalls, TRUE)) <=>
           /\ hasCallback /\ lastStep'.event.type = "error" /\ ~lastStep'.event.stale
           /\ (cbCalls = << >> \/ ~Last(cbCalls))
      /\ (cbCalls' = Append(cbCalls, FALSE)) <=>
           /\ hasCallback /\ lastStep'.event.type = "data" /\ ~lastStep'.event.stale
           /\ cbCalls # << >> /\ Last(cbCalls)
      /\ (cbCalls' # cbCalls => \E b \in BOOLEAN : cbCalls' = Append(cbCalls, b)) ]_vars

\* true, false, true: two errors with a data chunk in between
C5_Witness == Len(cbCalls) > 2

\* C6: a data or error event of a stream that is not the current connection
\* changes nothing of the filelike
C6_StaleEventIgnored ==
  [][ (lastStep'.event.type \in {"data", "error"} /\ lastStep'.event.stale) =>
        /\ UNCHANGED << virtualBuffer, currentConnection, lastErrorTime, closed,
                        readRequests, lastResolvedCallbackEnd, cbCalls >>
        /\ lastStep'.settled = << >>
        /\ lastStep'.fetched = << >> ]_vars

\* a superseded stream delivered a chunk while another connection was current
C6_Witness == StaleStreamEvent("data") /\ IsSome(currentConnection)

\* a superseded stream delivered an error while requests were queued
C6_WitnessError == StaleStreamEvent("error") /\ readRequests # << >>


\* the errors read() rejects an oversized or out-of-file request with
RangeErrors == {"exceedsCache", "exceedsFile"}

\* a request read() must refuse
OutOfBounds(range) ==
  \/ range.end - range.start > cacheSizeInBytes
  \/ IsSome(fileSize) /\ range.end > Val(fileSize)

\* C7: a read longer than the cache or reaching past the end of the file is
\* rejected, never queued and never resolved, and the step that rejects it
\* leaves the queue, the current connection and the cached bytes as they were
\* and opens no connection
C7_RejectedReadChangesNothing ==
  [][ /\ \A q \in Queue' : ~OutOfBounds(q.range)'
      /\ \A r \in Settled' : OutOfBounds(r.range)' => r.outcome = "rejected"
      /\ (\E r \in Settled' : r.outcome = "rejected" /\ r.error.kind \in RangeErrors) =>
            /\ UNCHANGED << readRequests, currentConnection >>
            /\ ResidentBytes' = ResidentBytes
            /\ lastStep'.fetched = << >> ]_vars

\* C8: a stream that has been destroyed emits no data, end or error event
C8_NoEventAfterDestroy ==
  lastStep.event.type \in {"data", "end", "error"} => ~lastStep.event.destroyed


(***************************************************************************)
(* Properties of the IteratorCursor.                                       *)
(***************************************************************************)
ReadCalls == {"next", "nextBatch", "readUntil"}

\* C9: a next, nextBatch or readUntil call made after end() has completed
\* returns undefined
C9_UndefinedAfterEnd ==
  (lastReturn.op \in ReadCalls /\ lastReturn.afterEnd) => lastReturn.value = None

\* the last call was readUntil(T'), made while an item stashed by a readUntil(T)
\* with T <= T' was held
SecondReadUntil ==
  /\ lastReturn.op = "readUntil"
  /\ IsSome(lastReturn.stash)
  /\ IsSome(lastReturn.stashedBy) /\ Val(lastReturn.stashedBy) <= lastReturn.arg

BeginsWithStash ==
  /\ IsSome(lastReturn.value)
  /\ Val(lastReturn.value) # << >>
  /\ Val(lastReturn.value)[1] = Val(lastReturn.stash)

\* C10 as stated: the list of the second call begins with the stashed item
C10_BeginsWithStash == SecondReadUntil => BeginsWithStash

\* the item is within the bound of a readUntil: a message received at or before
\* the end time, a stamp before it
WithinBound(item, end) ==
  \/ item.type = "message-event" /\ item.time <= end
  \/ item.type = "stamp" /\ item.time < end

\* C10 amended: the list of the second call begins with the stashed item when
\* that item is within the bound T' and the call is not cancelled; when the item
\* is beyond T' the list is empty and the item stays stashed; a cancelled call
\* returns undefined
C10_BeginsWithStashWithinBound ==
  SecondReadUntil =>
    IF lastReturn.value = None THEN aborted
    ELSE IF WithinBound(Val(lastReturn.stash), lastReturn.arg) THEN BeginsWithStash
    ELSE Val(lastReturn.value) = << >> /\ lastReturn.kept = lastReturn.stash

\* a second readUntil returned the stashed item followed by another one
C10_Witness ==
  /\ SecondReadUntil /\ BeginsWithStash
  /\ Len(Val(lastReturn.value)) > 1

\* a second readUntil found the stashed item beyond its bound
C10_WitnessBeyond ==
  /\ SecondReadUntil /\ lastReturn.value = Some(<< >>)
  /\ lastReturn.arg > Val(lastReturn.stashedBy)


\* the list a call returned
Returned == Val(lastReturn.value)

\* C11: every item of the list readUntil(end) returns is within the bound: a
\* message event received at or before end, a stamp before end
C11_ReadUntilWithinBound ==
  (lastReturn.op = "readUntil" /\ IsSome(lastReturn.value)) =>
     \A i \in DOMAIN Returned :
        /\ Returned[i].type = "message-event" => Returned[i].time <= lastReturn.arg
        /\ Returned[i].type = "stamp" => Returned[i].time < lastReturn.arg

\* a readUntil returned a stashed stamp, and a stamp at its end time ended it
C11_Witness ==
  /\ lastReturn.op = "readUntil" /\ IsSome(lastReturn.value)
  /\ IsSome(lastReturn.stash) /\ Val(lastReturn.stash).type = "stamp"
  /\ Returned # << >> /\ Returned[1] = Val(lastReturn.stash)
  /\ lastReturn.kept = Some([type |-> "stamp", time |-> lastReturn.arg])

\* C12: without cancellation, the items pulled from the iterator are the items
\* returned to the caller, once each and in the iterator's order, followed by
\* those the cursor still holds for the call in flight and in the stash
C12_PulledItemsReturnedInOrder ==
  ~aborted =>
     delivered \o call.results \o lastIteratorResult = SubSeq(items, 1, pos)

\* C13: a list nextBatch returns is not empty; it is one problem, or items
\* within the cutoff followed by the item that ended the batch: one beyond the
\* cutoff or a problem, unless the iterator ended or the cursor was cancelled
C13_NextBatchShape ==
  (lastReturn.op = "nextBatch" /\ IsSome(lastReturn.value)) =>
     LET n == Len(Returned)
         cutoff == Returned[1].time + lastReturn.arg
     IN  /\ n >= 1
         /\ Returned[1].type = "problem" => n = 1
         /\ Returned[1].type # "problem" =>
              /\ \A i \in 1..(n - 1) :
                    Returned[i].type # "problem" /\ Returned[i].time <= cutoff
              /\ \/ n > 1 /\ Returned[n].type = "problem"
                 \/ n > 1 /\ Returned[n].time > cutoff
                 \/ lastReturn.sawDone
                 \/ lastReturn.abortedAtReturn

\* a batch of two items ended by an item beyond the cutoff
C13_Witness ==
  /\ lastReturn.op = "nextBatch" /\ IsSome(lastReturn.value)
  /\ Len(Returned) = 2 /\ ~lastReturn.sawDone /\ ~lastReturn.abortedAtReturn
  /\ Returned[2].type # "problem"
  /\ Returned[2].time > Returned[1].time + lastReturn.arg

\* C14: a next or readUntil call made after the abort returns undefined and
\* pulls nothing; a readUntil that finds the signal aborted after a pull returns
\* undefined
C14_AbortedReturnsUndefined ==
  /\ (lastReturn.op \in {"next", "readUntil"} /\ lastReturn.cancelled) =>
        lastReturn.value = None /\ lastReturn.to = lastReturn.from
  /\ (lastReturn.op = "readUntil" /\ lastReturn.abortedAtReturn) =>
        lastReturn.value = None

\* a readUntil was cancelled after it had pulled an item
C14_Witness ==
  /\ lastReturn.op = "readUntil" /\ ~lastReturn.cancelled /\ lastReturn.abortedAtReturn
  /\ lastReturn.to > lastReturn.from + 1

\* C15: readUntil called with the iterator exhausted and nothing stashed
\* returns undefined
C15_UndefinedWhenExhausted ==
  (lastReturn.op = "readUntil" /\ lastReturn.stash = None
     /\ lastReturn.from = Len(items)) => lastReturn.value = None

(***************************************************************************)
(* Properties of the MCAP unindexed source.                                *)
(***************************************************************************)
\* the last call was a messageIterator() that ran on an initialized source
Iterated == lastResult.op = "messageIterator" /\ ~lastResult.threw

Yielded == lastResult.value

Stored == storedEvents(Val(msgEventsByChannel))

\* where a yielded result sits in the store: channel by channel in the order the
\* channels were registered, and in file order within a channel
StoredIndex(result) == CHOOSE k \in DOMAIN Stored : Stored[k] = result

\* C16: a forward message iterator of the MCAP unindexed source yields its
\* message events in non-decreasing receive time, whatever the order of the
\* Message records in the file, and events with equal receive time come out
\* in the order in which the source stores them (the sort is stable).
C16_ForwardIteratorSorted ==
  (Iterated /\ ~lastResult.args.reverse) =>
     /\ \A i \in 1..(Len(Yielded) - 1) :
           compareTime(Yielded[i].msgEvent.receiveTime, Yielded[i + 1].msgEvent.receiveTime) <= 0
     /\ \A i, j \in DOMAIN Yielded :
           (i < j /\ Yielded[i].msgEvent.receiveTime = Yielded[j].msgEvent.receiveTime) =>
              StoredIndex(Yielded[i]) < StoredIndex(Yielded[j])

\* a forward iterator yielded three events of a file whose Message records
\* are out of time order, two of them with equal receive time
C16_Witness ==
  /\ Iterated /\ ~lastResult.args.reverse
  /\ Len(Yielded) = 3
  /\ \E i, j \in DOMAIN Stored :
        i < j /\ isGreaterThan(Stored[i].msgEvent.receiveTime, Stored[j].msgEvent.receiveTime)
  /\ \E i, j \in DOMAIN Yielded :
        i < j /\ Yielded[i].msgEvent.receiveTime = Yielded[j].msgEvent.receiveTime

\* C17: with reverse = true a message iterator yields its message events in
\* non-increasing receive time, for the MCAP unindexed source as for any
\* other source.
C17_ReverseIteratorDescending ==
  (Iterated /\ lastResult.args.reverse) =>
     \A i \in 1..(Len(Yielded) - 1) :
        compareTime(Yielded[i].msgEvent.receiveTime, Yielded[i + 1].msgEvent.receiveTime) >= 0

\* the bounds a messageIterator() call works with: those of its arguments,
\* or else the bounds initialize() returned
RequestedStart == IF IsSome(lastResult.args.start) THEN Val(lastResult.args.start) ELSE Val(mcapStart)

RequestedEnd == IF IsSome(lastResult.args.end) THEN Val(lastResult.args.end) ELSE Val(mcapEnd)

\* the stored events a messageIterator() call asks for
Requested == { k \in DOMAIN Stored : /\ Stored[k].msgEvent.topic \in lastResult.args.topics
                                     /\ compareTime(RequestedStart, Stored[k].msgEvent.receiveTime) <= 0
                                     /\ compareTime(Stored[k].msgEvent.receiveTime, RequestedEnd) <= 0 }

\* C18: the MCAP unindexed message iterator yields exactly the stored message
\* events whose topic is selected and whose receive time lies in [start, end]
\* inclusive, start and end defaulting to the bounds of initialize(), each
\* exactly once; an empty selection, or start > end, yields nothing.
C18_IteratorYieldsExactlyTheRequested ==
  Iterated =>
     /\ { Yielded[i].msgEvent : i \in DOMAIN Yielded } = { Stored[k].msgEvent : k \in Requested }
     /\ Len(Yielded) = Cardinality(Requested)
     /\ (lastResult.args.topics = {} \/ compareTime(RequestedStart, RequestedEnd) > 0) =>
           Yielded = << >>

\* an iterator was asked for a range that starts at the receive time of a
\* stored event and ends at that of another: it yielded both and left out a
\* third stored event
C18_Witness ==
  /\ Iterated
  /\ IsSome(lastResult.args.start) /\ IsSome(lastResult.args.end)
  /\ \E i, j \in DOMAIN Yielded :
        /\ i # j
        /\ Yielded[i].msgEvent.receiveTime = Val(lastResult.args.start)
        /\ Yielded[j].msgEvent.receiveTime = Val(lastResult.args.end)
  /\ Len(Yielded) < Len(Stored)

\* an iterator whose start lies after its end yielded nothing from a source
\* that stores an event of a selected topic
C18_WitnessEmptyRange ==
  /\ Iterated
  /\ compareTime(RequestedStart, RequestedEnd) > 0
  /\ \E k \in DOMAIN Stored : Stored[k].msgEvent.topic \in lastResult.args.topics
  /\ Yielded = << >>

\* the last call was a getBackfillMessages() that ran on an initialized source
Backfilled == lastResult.op = "getBackfillMessages" /\ ~lastResult.threw

\* the stored events of a topic at or before the time of a backfill
AtOrBefore(topic) == { k \in DOMAIN Stored : /\ Stored[k].msgEvent.topic = topic
                                             /\ compareTime(Stored[k].msgEvent.receiveTime, lastResult.args.time) <= 0 }

BackfillOf(topic) == { i \in DOMAIN lastResult.value : lastResult.value[i].topic = topic }

\* C19: for every requested topic with a stored event at or before args.time,
\* MCAP backfill returns exactly one event of the topic, one with the greatest
\* receive time at or before args.time; other topics contribute nothing.
C19_BackfillReturnsLatest ==
  Backfilled =>
     \A topic \in Topics :
        IF topic \in lastResult.args.topics /\ AtOrBefore(topic) # {}
        THEN /\ Cardinality(BackfillOf(topic)) = 1
             /\ \A i \in BackfillOf(topic) :
                   /\ \E k \in AtOrBefore(topic) : Stored[k].msgEvent = lastResult.value[i]
                   /\ \A k \in AtOrBefore(topic) :
                         compareTime(Stored[k].msgEvent.receiveTime, lastResult.value[i].receiveTime) <= 0
        ELSE BackfillOf(topic) = {}

\* C20: the list a backfill returns is in non-decreasing receive time.
C20_BackfillSorted ==
  Backfilled =>
     \A i \in 1..(Len(lastResult.value) - 1) :
        compareTime(lastResult.value[i].receiveTime, lastResult.value[i + 1].receiveTime) <= 0

\* initialize() has returned
Initialized == phase = "initialized"

\* a receive time lies within the bounds initialize() returned
WithinBounds(time) == compareTime(Val(mcapStart), time) <= 0 /\ compareTime(time, Val(mcapEnd)) <= 0

\* C21: after a successful initialize() of an MCAP unindexed source,
\* start <= end, and start <= receive_time <= end for every stored message
\* event and so for every event an iterator or a backfill returns.
C21_BoundsCoverStored ==
  Initialized =>
     /\ compareTime(Val(mcapStart), Val(mcapEnd)) <= 0
     /\ \A k \in DOMAIN Stored : WithinBounds(Stored[k].msgEvent.receiveTime)
     /\ Iterated => \A i \in DOMAIN Yielded : WithinBounds(Yielded[i].msgEvent.receiveTime)
     /\ Backfilled => \A i \in DOMAIN lastResult.value : WithinBounds(lastResult.value[i].receiveTime)

\* a source was initialized from a file whose first message is later than its
\* second, and a backfill returned the earlier one
C21_Witness ==
  /\ Initialized /\ Backfilled
  /\ Len(Stored) >= 2
  /\ isGreaterThan(Stored[1].msgEvent.receiveTime, Stored[2].msgEvent.receiveTime)
  /\ Stored[1].msgEvent.message < Stored[2].msgEvent.message
  /\ \E i \in DOMAIN lastResult.value : lastResult.value[i] = Stored[2].msgEvent
  /\ isLessThan(Val(mcapStart), Val(mcapEnd))

\* the time initialize() falls back to when it saw no message
TimeZero == [sec |-> 0, nsec |-> 0]

\* initialize() returned start = end = (0,0)
BoundsAtZero == Val(mcapStart) = TimeZero /\ Val(mcapEnd) = TimeZero

\* C22 as stated: the initialization result has start = end = (0,0) if and
\* only if the source holds no message.
C22_ZeroBoundsIffNoMessage ==
  Initialized => (BoundsAtZero <=> Stored = << >>)

\* C22, amended: the initialization result has start = end = (0,0) if and
\* only if every stored message has receive time (0,0); a source without
\* messages is one such case, a source whose messages all carry log time 0
\* is the other.
C22_ZeroBoundsIffAllMessagesAtZero ==
  Initialized =>
     /\ Stored = << >> => BoundsAtZero
     /\ BoundsAtZero <=> \A k \in DOMAIN Stored : Stored[k].msgEvent.receiveTime = TimeZero

\* a source initialized from a file with two messages, both at log time 0
C22_Witness ==
  /\ Initialized
  /\ Len(Stored) = 2
  /\ \A k \in DOMAIN Stored : Stored[k].msgEvent.receiveTime = TimeZero
  /\ BoundsAtZero

\* a source initialized from a file with records but no stored message
C22_WitnessEmpty ==
  /\ Initialized
  /\ nRecords > 0
  /\ Stored = << >>
  /\ BoundsAtZero

\* initialize() has just processed a record
Processed == phase = "reading" /\ nRecords' = nRecords + 1

\* the record just processed is a Schema repeating an id with different content
DifferingSchema ==
  /\ Val(lastRecord').type = "Schema"
  /\ IsSome(schemasById[Val(lastRecord').id])
  /\ Val(schemasById[Val(lastRecord').id]) # Val(lastRecord')

\* the record just processed is a Channel repeating an id with different content
DifferingChannel ==
  /\ Val(lastRecord').type = "Channel"
  /\ \E earlier \in channelRecords : earlier.id = Val(lastRecord').id /\ earlier # Val(lastRecord')

\* the record just processed is a Channel whose schema id is not 0 and has no
\* prior Schema record
ChannelWithoutSchema ==
  /\ Val(lastRecord').type = "Channel"
  /\ Val(lastRecord').schemaId # 0
  /\ ~IsSome(schemasById[Val(lastRecord').schemaId])

\* the record just processed is a Message whose channel has no prior Channel
\* record and is not marked faulty
MessageWithoutChannel ==
  /\ Val(lastRecord').type = "Message"
  /\ ~\E earlier \in channelRecords : earlier.id = Val(lastRecord').channelId
  /\ Val(lastRecord').channelId \notin channelIdsWithErrors

\* the record just processed is a Channel record of a channel marked faulty
OfFaultyChannel == Val(lastRecord').type = "Channel" /\ Val(lastRecord').id \in channelIdsWithErrors

\* initialize() throws in this step, and a source whose initialize() threw
\* stays without stored events
FailsForGood ==
  /\ Processed => (phase' = "failed" /\ lastResult'.op = "initialize" /\ lastResult'.threw)
  /\ phase' = "failed" => msgEventsByChannel' = None

C23_WitnessFaulty ==
  /\ phase = "reading"
  /\ IsSome(lastRecord) /\ Val(lastRecord).type = "Channel"
  /\ Val(lastRecord).schemaId # 0 /\ ~IsSome(schemasById[Val(lastRecord).schemaId])
  /\ nRecords >= 2

\* the record just processed is a Channel record whose parsing failed
ChannelParseFailed == Val(lastRecord').type = "Channel" /\ faulty' # faulty

\* the record just processed is a Message of a channel marked faulty
MessageOfFaultyChannel == Val(lastRecord').type = "Message" /\ Val(lastRecord').channelId \in channelIdsWithErrors

\* the record just processed is a well-formed Message of a registered channel
MessageOfRegisteredChannel ==
  /\ Val(lastRecord').type = "Message"
  /\ IsSome(channelInfoById[Val(lastRecord').channelId])
  /\ ~deserializeThrows(Val(lastRecord'))

\* no event of a faulty channel is stored, yielded or returned by a backfill
NoEventOfFaultyChannel ==
  /\ \A id \in faulty : ~mapHas(messagesByChannel, id)
  /\ IsSome(msgEventsByChannel) => \A id \in faulty : ~mapHas(Val(msgEventsByChannel), id)
  /\ Iterated => \A i \in DOMAIN Yielded :
                    /\ Yielded[i].connectionId \notin faulty
                    /\ \E k \in DOMAIN Stored : Stored[k] = Yielded[i]
  /\ Backfilled => \A i \in DOMAIN lastResult.value :
                      \E k \in DOMAIN Stored : Stored[k].msgEvent = lastResult.value[i]

\* C24: a Channel record that fails to parse marks its channel faulty without
\* failing initialize(); every later Message record of the channel is skipped
\* and leaves the stored events and start/end as they were; no event of the
\* channel is ever stored or returned; a Message of a registered channel is
\* stored as usual.
C24_FaultyChannelQuarantined ==
  [][ /\ (Processed /\ ChannelParseFailed) =>
            /\ phase' = "reading"
            /\ Val(lastRecord').id \in channelIdsWithErrors'
            /\ UNCHANGED << messagesByChannel, startTime, endTime >>
      /\ (Processed /\ MessageOfFaultyChannel) =>
            /\ phase' = "reading"
            /\ UNCHANGED << messagesByChannel, startTime, endTime, channelIdsWithErrors >>
      /\ (Processed /\ MessageOfRegisteredChannel) =>
            /\ phase' = "reading"
            /\ Len(storedEvents(messagesByChannel')) = Len(storedEvents(messagesByChannel)) + 1
            /\ \E k \in DOMAIN storedEvents(messagesByChannel') :
                  /\ storedEvents(messagesByChannel')[k].msgEvent.message = nRecords'
                  /\ storedEvents(messagesByChannel')[k].connectionId = Val(lastRecord').channelId
      /\ NoEventOfFaultyChannel' ]_vars

\* initialize() has just skipped a Message of a faulty channel whose log time
\* lies outside the bounds of the events stored for another channel
C24_Witness ==
  /\ phase = "reading"
  /\ IsSome(lastRecord) /\ Val(lastRecord).type = "Message"
  /\ Val(lastRecord).channelId \in channelIdsWithErrors
  /\ storedEvents(messagesByChannel) # << >>
  /\ isGreaterThan(fromNanoSec(Val(lastRecord).logTime), Val(endTime))

\* an iterator yielded the events of a source that holds a faulty channel
C24_WitnessIterated ==
  /\ Iterated
  /\ faulty # {}
  /\ Yielded # << >>

\* the record just processed is a Message of a registered channel whose data
\* the channel's reader cannot deserialize
UndeserializableMessage ==
  /\ Val(lastRecord').type = "Message"
  /\ IsSome(channelInfoById[Val(lastRecord').channelId])
  /\ deserializeThrows(Val(lastRecord'))

\* C25: a message that fails to deserialize does not terminate the source:
\* initialize() goes on with the remaining records, keeps what it has stored,
\* and the source can still be initialized and iterated (the failure being
\* reported as a problem item of the message's connection).
C25_DeserializeFailureDoesNotTerminate ==
  [][ (Processed /\ UndeserializableMessage) =>
         /\ phase' = "reading"
         /\ ~lastResult'.threw
         /\ \A k \in DOMAIN storedEvents(messagesByChannel) :
               \E j \in DOMAIN storedEvents(messagesByChannel') :
                  storedEvents(messagesByChannel')[j] = storedEvents(messagesByChannel)[k] ]_vars

(***************************************************************************)
(* Properties of the sizes of message events.                              *)
(***************************************************************************)
\* the first event built for the topic of the i-th event
FirstOfTopic(i) == CHOOSE j \in DOMAIN emitted : /\ emitted[j].topic = emitted[i].topic
                                                  /\ \A k \in 1..(j - 1) : emitted[k].topic # emitted[i].topic

\* the i-th event carries the larger of its wire size and the estimate made
\* for the first message of its topic
SizedAsClaimed(i) ==
  /\ ~emitted[i].sizeInBytes.nan
  /\ emitted[i].sizeInBytes.n >= 0
  /\ emitted[i].sizeInBytes.n >= emitted[i].byteLength
  /\ emitted[i].sizeInBytes.n >= emitted[FirstOfTopic(i)].estimate
  /\ emitted[i].sizeInBytes.n \in {emitted[i].byteLength, emitted[FirstOfTopic(i)].estimate}

\* C26: every message event of a source, MCAP or bag, carries a non-negative
\* number as sizeInBytes, the larger of the message's wire size and the
\* estimate computed for the first message of its topic.
C26_SizeIsMaxOfWireAndEstimate == \A i \in DOMAIN emitted : SizedAsClaimed(i)

\* the same for the events of the MCAP unindexed source alone
McapSizeIsMaxOfWireAndEstimate == sizeSource = "mcap" => \A i \in DOMAIN emitted : SizedAsClaimed(i)

(***************************************************************************)
(* Properties of the life cycle of the sources.                            *)
(***************************************************************************)
\* C27: a source is initialized exactly once: an initialize() called on a
\* WorkerIterableSource or a McapIterableSource on which an initialize() has
\* already returned ends with an error and replaces nothing.
C27_SecondInitializeRejected == \A e \in initLog : e.again => e.threw /\ ~e.replaced

QueryFailed(q) == q.threw /\ ~q.delivered

\* before an initialize() of the source has returned, a query fails
PreInitializationQueriesFail == lastQuery # None /\ ~Val(lastQuery).initialized => QueryFailed(Val(lastQuery))

\* C28: a query made before initialize() has completed fails with an error
\* and delivers nothing, and so does a query made on a worker-backed source
\* after terminate().
C28_QueriesFailUnlessInitialized == lastQuery # None /\ (~Val(lastQuery).initialized \/ Val(lastQuery).terminated) => QueryFailed(Val(lastQuery))

\* C29: once terminate() has returned no worker of the source is running,
\* and a source never has more than one running worker.
C29_TerminateStopsWorker == (terminated => Running = {}) /\ Cardinality(Running) <= 1

\* a source never has more than one running worker
AtMostOneWorker == Cardinality(Running) <= 1

(***************************************************************************)
(* Properties of WorkerIterableSource.messageIterator.                     *)
(***************************************************************************)
\* the generator has run to its end without the consumer stopping it
ConsumedToTheEnd == wPc = "done" /\ ~stopped /\ ~failed

\* C30: the foreground iterator yields the items of the worker's source
\* iterator in their order, none lost, doubled or out of place, and all of
\* them when it is consumed to the end, however nextBatch splits the stream.
C30_YieldsTheSourceItems ==
  /\ Len(yielded) <= Len(items)
  /\ yielded = SubSeq(items, 1, Len(yielded))
  /\ ConsumedToTheEnd => yielded = items

\* a stream of three items consumed to the end in more than one batch
C30_Witness == ConsumedToTheEnd /\ Len(items) = MaxIterItems /\ yielded = items /\ nCalls >= 4

\* a stream consumed to the end in one batch
C30_WitnessOneBatch == ConsumedToTheEnd /\ Len(items) = MaxIterItems /\ yielded = items /\ nCalls = 3

\* C36: when a started foreground iterator has terminated, by exhaustion, by
\* the consumer's return() or by an error, end() of the worker's cursor was
\* invoked exactly once, the source iterator's return hook was called, and
\* the cursor proxy was released, also when end() failed; before the
\* generator reaches finally end() is not invoked.
C36_EndOnceAndProxyReleased ==
  /\ endCalls <= 1
  /\ wPc \in {"start", "nextBatch", "suspended", "finally"} => endCalls = 0 /\ ~proxyReleased
  /\ wPc \in {"end", "done"} => endCalls = 1 /\ (hasReturn => returned)
  /\ wPc = "done" => proxyReleased

\* the consumer abandoned the iterator before its end
C36_Witness == wPc = "done" /\ stopped /\ Len(yielded) < Len(items) /\ ~failed

\* the source iterator threw and end() failed as well
C36_WitnessEndFails == wPc = "done" /\ failed /\ ~ended /\ endCalls = 1 /\ yielded # << >>

(***************************************************************************)
(* Properties of the cancellation bridge.                                  *)
(***************************************************************************)
Materialized(t) == transfers[t].pc = "deserialized"

\* what holds of the bridge in every state: a receiver's signal made from an
\* aborted original is aborted from the start, and no receiver's signal is
\* aborted unless the original is
BridgeSafe ==
  \A t \in TransferIds :
     /\ (Materialized(t) /\ transfers[t].aborted) => transfers[t].signalAborted
     /\ (transfers[t].pc # "none" /\ originalAborted /\ ~transfers[t].listening) => transfers[t].aborted
     /\ transfers[t].signalAborted => originalAborted

\* C31: the receiver's signal is aborted as soon as it is materialized when
\* the original was aborted at serialization; it aborts eventually when the
\* original aborts later, before or after deserialization; it never aborts
\* unless the original has.
C31_BridgeFaithful ==
  /\ []BridgeSafe
  /\ \A t \in TransferIds : (originalAborted /\ transfers[t].pc # "none") ~> transfers[t].signalAborted

\* the original aborted between serialization and deserialization, and the
\* receiver's signal has aborted on the queued message
C31_Witness ==
  \E t \in TransferIds :
     /\ Materialized(t) /\ ~transfers[t].aborted /\ transfers[t].signalAborted
     /\ \E u \in TransferIds : Materialized(u) /\ transfers[u].aborted

(***************************************************************************)
(* Properties of the connections the scheduler opens.                      *)
(***************************************************************************)
\* the bytes resident in the cache
Resident == DOMAIN virtualBuffer.data

\* C32: the range of every fetch holds no byte that is resident in the cache
\* when the connection is opened, also when the target reaches beyond the
\* request in a cache smaller than the file.
C32_FetchesOnlyMissingBytes == \A i \in DOMAIN lastStep.fetched : BytesOf(lastStep.fetched[i]) \cap Resident = {}

(***************************************************************************)
(* Properties of cache hits.                                               *)
(***************************************************************************)
\* the reads the scheduler resolved in the last step, in queue order
Hits == SelectSeq(lastStep.settled, LAMBDA e : e.outcome = "resolved" /\ e.range.end > e.range.start)

\* the queued reads that are not settled
Unsettled == { q \in Queue : ~q.settled }

\* no read whose range is resident is left in the queue of an open filelike
NoHitLeftQueued == ~closed => \A q \in Unsettled : ~hasData(virtualBuffer, q.range.start, q.range.end)

\* a hit was resolved with the bytes the cache holds for its range
HitsHoldCachedBytes ==
  \A i \in DOMAIN Hits :
     /\ hasData(virtualBuffer, Hits[i].range.start, Hits[i].range.end)
     /\ Hits[i].data = slice(virtualBuffer, Hits[i].range.start, Hits[i].range.end)

\* the connection of the state before the step is live when the scheduler
\* of the step runs
LiveAtSchedule ==
  /\ IsSome(currentConnection)
  /\ \/ lastStep'.event.type = "none"
     \/ /\ lastStep'.event.type = "data" /\ ~lastStep'.event.stale
        /\ LET k == Val(currentConnection).stream
           IN  ~hasData(virtualBuffer', streams[k].start, streams[k].start + streams[k].length)

\* a step that resolved a hit with a live connection and nothing else
\* pending opens no connection and leaves the live one alone
NoFetchForHit ==
  (Hits' # << >> /\ Unsettled' = {} /\ LiveAtSchedule) =>
     /\ lastStep'.fetched = << >>
     /\ IsSome(currentConnection')
     /\ Val(currentConnection').stream = Val(currentConnection).stream
     /\ ~streams'[Val(currentConnection).stream].aborted

C33_WitnessTwo == \E i, j \in DOMAIN Hits : Hits[i].range.end # Hits[j].range.end

(***************************************************************************)
(* Properties of the ranges that are fetched.                              *)
(***************************************************************************)
\* the stream the last step opened
Opened == streams[Val(currentConnection).stream]

\* C34: every fetch(offset, length) has offset >= 0, length >= 1 and
\* offset + length <= file size, and its Range header names the bytes
\* offset .. offset + length - 1.
C34_FetchWithinFile ==
  \A i \in DOMAIN lastStep.fetched :
     LET offset == lastStep.fetched[i].start
         length == lastStep.fetched[i].end - lastStep.fetched[i].start
     IN  /\ offset >= 0 /\ length >= 1 /\ offset + length <= Val(fileSize)
         /\ Opened.start = offset /\ Opened.length = length
         /\ Opened.header.first = offset
         /\ Opened.header.last = offset + length - 1

\* a connection was opened for the last bytes of the file
C34_Witness == \E i \in DOMAIN lastStep.fetched : lastStep.fetched[i].end = Val(fileSize) /\ readRequests # << >>

\* the last read resolved ends at the end of the file, in a cache smaller
\* than the file, and the scheduler found nothing to read ahead
C34_WitnessAtEnd ==
  /\ IsSome(fileSize) /\ lastResolvedCallbackEnd = fileSize /\ cacheSizeInBytes < Val(fileSize)
  /\ Hits # << >> /\ currentConnection = None /\ lastStep.fetched = << >>

(***************************************************************************)
(* Properties of the scheduler's sanity checks.                            *)
(***************************************************************************)
\* C35: getNewConnection never throws: whenever the scheduler computes the
\* connection for the oldest pending request, some byte of that request is
\* missing from the cache, every resident request having been resolved and
\* removed earlier in the same run.
C35_OldestRequestMissesBytes ==
  /\ ~thrown
  /\ (~closed /\ readRequests # << >>) =>
        missingRanges(readRequests[1].range, getRangesWithData(virtualBuffer)) # << >>

\* a run resolved one request and computed the connection for another
C35_Witness == Hits # << >> /\ Unsettled # {} /\ ~closed

(***************************************************************************)
(* Properties of open().                                                   *)
(***************************************************************************)
\* an open() call returns, the file size being known already
LaterOpenCompletes == IsSome(fileSize) /\ Len(opening') < Len(opening)

\* C37: open() is idempotent, also when calls overlap: an open() that
\* completes after the file size is known leaves the file size as it is and
\* discards no byte already written to the cache.
C37_OpenIsIdempotent ==
  [][LaterOpenCompletes => fileSize' = fileSize /\ Resident \subseteq DOMAIN virtualBuffer'.data]_vars

(***************************************************************************)
(* Properties of the topic statistics of an unindexed MCAP source.         *)
(***************************************************************************)
\* the stored message events of a topic
StoredOn(topic) == { k \in DOMAIN Stored : Stored[k].msgEvent.topic = topic }

\* C38: for every topic of the statistics initialize() returns, numMessages
\* is the number of stored message events of that topic, also when several
\* channels publish the topic.
C38_NumMessagesCountsTheTopic ==
  IsSome(topicStats) =>
    \A i \in DOMAIN Val(topicStats) :
       Val(topicStats)[i].value.numMessages = Cardinality(StoredOn(Val(topicStats)[i].key))

(***************************************************************************)
(* Progress of the reads of a CachedFilelike.                              *)
(***************************************************************************)
\* a read that is pending in a closed filelike stays pending in every step
PendingAfterCloseStaysPending == [][closed /\ Unsettled # {} => Unsettled \subseteq Unsettled']_vars

\* C39: a read accepted after the filelike has closed is eventually settled,
\* rejected or resolved from the cache, and not left pending forever.
C39_ReadAfterCloseSettled == (closed /\ Unsettled # {}) ~> (Unsettled = {})

\* the stream of the current connection has ended without an error before it
\* delivered its range
EndedEarly ==
  /\ IsSome(currentConnection)
  /\ Opened.phase = "ended" /\ ~Opened.aborted
  /\ Opened.sent < Opened.length

\* after an early end the connection stays as it is and no pending read is settled
PendingAfterEarlyEndStaysPending ==
  [][EndedEarly /\ ~closed /\ Unsettled # {} => EndedEarly' /\ Unsettled \subseteq Unsettled']_vars

\* C40: when the active stream ends without error before it has delivered
\* its range, a pending read that still misses bytes is not stuck: the
\* scheduler reconnects and the read is eventually resolved.
C40_ReadResolvedAfterEarlyEnd == (EndedEarly /\ ~closed /\ Unsettled # {}) ~> (Unsettled = {})

====
